---- MODULE Spec2Model ----
(***************************************************************************)
(* Local-state persistence and synchronization engine of MyAnimeSync:      *)
(* the list-data mutator (useAuthCore), the storage quota guard, the       *)
(* tracked-media cache, the reminder scheduler and the shared-data sync    *)
(* client, over the IndexedDB key-value store (idb-keyval).                *)
(*                                                                         *)
(* JavaScript is single-threaded: every action below is one synchronous    *)
(* stretch of code between two await points (or one callback).  React      *)
(* state is updated when the queued updater functions are flushed by a     *)
(* render (action Render); callbacks read the state of the last render.    *)
(***************************************************************************)
EXTENDS Integers, Sequences, FiniteSets, TLC

\* ------------------------------------------------------------------ bounds
MaxId == 2              \* media ids are 1..MaxId
MaxCalls == 2           \* calls the UI makes in one behaviour
MaxQueue == 2           \* updaters batched before one render
MaxNow == 2             \* wall-clock instants 0..MaxNow
MaxEpisodes == 1        \* episode / chapter ids are 1..MaxEpisodes
MaxPasses == 3          \* scheduler passes in a row
TicksPerDay == 2        \* instants per day: the wall clock counts half days
MaxWeeks == 2           \* weeks over which isReminderDue is evaluated
MaxCount == 2           \* episode / chapter counts the catalog reports are 0..MaxCount

Ids == 1..MaxId
Episodes == 1..MaxEpisodes

\* ------------------------------------------------------- program constants
DEFAULT_STORAGE_QUOTA == 1073741824

SENSITIVE_GENRES == {"Hentai"}

IDB_PROFILE_KEY == "animesync_local_profile"
IDB_LIST_DATA_KEY == "animesync_local_list_data"
IDB_LAYOUT_CONFIG_KEY == "animesync_layout_config"
IDB_TRACKED_MEDIA_KEY == "animesync_tracked_media"
IDB_SHARED_DATA_KEY == "animesync_shared_data_config"

\* The image urls getImage is called with ("" is the empty url), and the
\* cache key `img-${url}` of the one that is not empty.
ImageUrls == {"", "url"}
cacheKey == "img-url"

StoreKeys == {IDB_PROFILE_KEY, IDB_LIST_DATA_KEY, IDB_LAYOUT_CONFIG_KEY,
              IDB_TRACKED_MEDIA_KEY, IDB_SHARED_DATA_KEY, cacheKey}

ListNames == {"planToWatch", "currentlyWatching", "planToRead", "currentlyReading"}

\* A value that may be undefined: <<>> is undefined, <<v>> is v.
Absent == <<>>
Present(v) == <<v>>
OrElse(opt, dflt) == IF opt = Absent THEN dflt ELSE opt[1]

\* ------------------------------------------------------------- list data
initialListData ==
    [planToWatch |-> <<>>,
     currentlyWatching |-> <<>>,
     watchedEpisodes |-> [i \in Ids |-> {}],
     planToRead |-> <<>>,
     currentlyReading |-> <<>>,
     readChapters |-> [i \in Ids |-> {}],
     notifications |-> <<>>,
     notificationsLayout |-> <<"updates", "reminders", "logs">>,
     pinnedNotificationTab |-> "updates",
     reminders |-> <<>>,
     hiddenGenres |-> SENSITIVE_GENRES,
     sensitiveContentUnlocked |-> FALSE,
     storageQuota |-> DEFAULT_STORAGE_QUOTA]

\* Array.prototype.includes / filter(id => id !== x) / [...list, x]
\* new Set(list)
SetOf(list) == {list[i] : i \in 1..Len(list)}

\* Variant of includes that never finds the id.
IncludesNever(list, x) == FALSE

Includes(list, x) == \E i \in 1..Len(list) : list[i] = x
\* Variant of the filter that keeps every element.
FilterOutNothing(list, x) == list

FilterOut(list, x) == SelectSeq(list, LAMBDA y : y # x)

\* The catalog record of a media id, as the UI hands it to the toggles.
Media(id) ==
    [id |-> id,
     type |-> IF id = 1 THEN "ANIME" ELSE "MANGA",
     episodes |-> IF id = 1 THEN MaxEpisodes ELSE 0,
     chapters |-> IF id = 1 THEN 0 ELSE MaxEpisodes,
     volumes |-> 0,
     synopsis |-> TRUE]

\* const { synopsis, ...mediaWithoutSynopsis } = media
WithoutSynopsis(m) == [m EXCEPT !.synopsis = FALSE]

VARIABLES
    listData,       \* React state listData, as of the last render
    updateQueue,    \* updaters passed to setListData and not yet run
    expected,       \* history: the transformers applied one by one at call time
    persists,       \* checkStorageAndNotify calls waiting for storage.estimate()
    txQueue,        \* IndexedDB transactions created and not yet complete
    store,          \* the committed content of the IndexedDB object store
    hasEstimate,    \* navigator.storage.estimate exists
    trackedMedia,   \* React state trackedMedia
    timers,         \* 100 ms membership timers and their continuations
    calls,          \* number of UI calls made so far
    nextId,         \* source of fresh ids (uuidv4, Date.now())
    now,            \* wall clock
    passRun,        \* history: the scheduler passes made since the last other operation
    created,        \* history: notifications the scheduler created, per reminder id
    sharedDataConfig, \* React state sharedDataConfig
    isSyncing,      \* React state isSyncing
    syncs,          \* syncSharedData calls in progress
    reloadPending,  \* who scheduled window.location.reload(), "none" if nobody
    exportTask,     \* the exportData call: its position and what it has read
    dueResult,      \* what the last isReminderDue evaluation returned, if any
    isCheckingForUpdates, \* React state isCheckingForUpdates, as of the last render
    checkingUpdates, \* values passed to setIsCheckingForUpdates and not yet rendered
    runs,           \* runChecks calls in progress
    authMode,       \* React state authMode, as of the last render
    signOutTask,    \* the signOut call: its position, and the calls made before it
    hidden,         \* what the last getHiddenGenres call read and returned, if any
    loadTask,       \* the loadListData call of the mount: its position
    reconciler,     \* the reconciler effect's initial timeout, and its firings
    cacheReady,     \* React state cacheReady of the image cache provider
    imageTask       \* the getImage call: its position, locals and result

mutVars == <<listData, updateQueue, expected, persists, txQueue, store, hasEstimate,
             trackedMedia, timers, calls, nextId>>
remVars == <<now, passRun, created>>
syncVars == <<sharedDataConfig, isSyncing, syncs, reloadPending>>
recVars == <<isCheckingForUpdates, checkingUpdates, runs>>
imgVars == <<cacheReady, imageTask>>
outVars == <<authMode, signOutTask, hidden, loadTask, reconciler, imgVars>>

\* The reconciler effect depends on [authMode, runChecks], and runChecks is
\* rebuilt when isCheckingForUpdates, listData.currentlyWatching,
\* listData.currentlyReading or trackedMedia changed: the effect then clears
\* its timeout and its interval and arms both again.
EffectRun(changed) ==
    IF changed /\ authMode = "local" THEN [reconciler EXCEPT !.armed = TRUE] ELSE reconciler
auxVars == <<exportTask, dueResult, recVars, outVars>>
vars == <<mutVars, remVars, syncVars, auxVars>>

\* No exportData call has been made: allData is what the call has read so
\* far, before (history) the stored profile and lists when it was called.
noExport ==
    [pc |-> "idle",
     allData |-> [profile |-> Absent, lists |-> Absent, layout |-> Absent, tracked |-> Absent],
     before |-> [profile |-> Absent, lists |-> Absent]]

\* No signOut call has been made.
noSignOut == [pc |-> "idle", calls |-> 0]

\* No getImage call has been made.  ready, entry: (history) cacheReady and the
\* stored entry when the call was made; result: <<>> is null.
noImage ==
    [pc |-> "idle", url |-> "", ready |-> FALSE, entry |-> Absent, now |-> 0,
     dataUrl |-> "", newItem |-> Absent, result |-> Absent]

\* ------------------------------------------------------ the key-value store
\* One IndexedDB transaction: put(value, key), delete(key), or clear().
Tx(key, value, kind, owner) == [key |-> key, value |-> value, kind |-> kind, owner |-> owner]

\* The object store after a transaction completes.
CommitTx(s, tx) ==
    IF tx.kind = "clear"
    THEN [k \in StoreKeys |-> Absent]
    ELSE IF tx.kind = "del"
    THEN [s EXCEPT ![tx.key] = Absent]
    ELSE [s EXCEPT ![tx.key] = Present(tx.value)]

\* Transactions on one object store run in the order they were created, so a
\* read sees every write created before it.
RECURSIVE View(_, _)
View(s, q) == IF q = <<>> THEN s ELSE View(CommitTx(s, Head(q)), Tail(q))

\* get(key): undefined when the key is absent.
Get(key) == View(store, txQueue)[key]

\* set(key, value): creates the readwrite transaction.
set(q, key, value, kind, owner) == Append(q, Tx(key, value, kind, owner))

\* del(key)
del(q, key, owner) == Append(q, Tx(key, Absent, "del", owner))

emptyStore == [k \in StoreKeys |-> Absent]

\* ------------------------------------------------------------ the mutator
\* { ...currentData, ...newData }
Merge(currentData, newData) ==
    [k \in DOMAIN currentData \cup DOMAIN newData |->
        IF k \in DOMAIN newData THEN newData[k] ELSE currentData[k]]

\* Variant of the toggle that appends without looking.
ToggleInAppend(list, id) == Append(list, id)

\* newIsInList ? list.filter(id => id !== media.id) : [...list, media.id]
ToggleIn(list, id) == IF Includes(list, id) THEN FilterOut(list, id) ELSE Append(list, id)

SetToggle(S, x) == IF x \in S THEN S \ {x} ELSE S \cup {x}

MarkSeen(n) == [n EXCEPT !.seen = TRUE]

\* Array.isArray(initialListData[key]) ? [] : {}
EmptySection(key) ==
    IF key \in {"watchedEpisodes", "readChapters"} THEN [i \in Ids |-> {}] ELSE <<>>

\* Variant of deleteReminder's update that leaves the notifications alone.
WithoutReminderOnly(d, id) ==
    [reminders |-> SelectSeq(d.reminders, LAMBDA r : r.id # id),
     notifications |-> d.notifications]

\* deleteReminder's update: reminders.filter(r => r.id !== id) and
\* notifications.filter(n => n.reminderId !== id)
WithoutReminder(d, id) ==
    [reminders |-> SelectSeq(d.reminders, LAMBDA r : r.id # id),
     notifications |-> SelectSeq(d.notifications, LAMBDA n : n.reminderId # id)]

\* The transformer of each mutator call: the partial update it returns for
\* the current data d.
getNewData(u, d) ==
    CASE u.op = "toggle" ->
            (u.list :> ToggleIn(d[u.list], u.id))
      [] u.op = "toggleCurrentlyWatching" ->
            [planToWatch |-> FilterOut(d.planToWatch, u.id),
             currentlyWatching |-> ToggleIn(d.currentlyWatching, u.id)]
      [] u.op = "toggleCurrentlyReading" ->
            [planToRead |-> FilterOut(d.planToRead, u.id),
             currentlyReading |-> ToggleIn(d.currentlyReading, u.id)]
      [] u.op = "remove" ->
            (u.list :> FilterOut(d[u.list], u.id))
      [] u.op = "unwatchAllEpisodes" ->
            [watchedEpisodes |-> [d.watchedEpisodes EXCEPT ![u.id] = {}]]
      [] u.op = "unmarkAllChaptersRead" ->
            [readChapters |-> [d.readChapters EXCEPT ![u.id] = {}]]
      [] u.op = "toggleEpisodeWatched" ->
            [watchedEpisodes |->
                [d.watchedEpisodes EXCEPT ![u.id] = SetToggle(@, u.episode)]]
      [] u.op = "toggleChapterRead" ->
            [readChapters |->
                [d.readChapters EXCEPT ![u.id] = SetToggle(@, u.episode)]]
      [] u.op = "appendNotifications" ->
            [notifications |-> d.notifications \o u.notifications]
      [] u.op = "addReminder" ->
            [reminders |-> Append(d.reminders, u.reminder)]
      [] u.op = "updateReminder" ->
            [reminders |->
                [i \in 1..Len(d.reminders) |->
                    IF d.reminders[i].id = u.id
                    THEN Merge(d.reminders[i], u.data) ELSE d.reminders[i]]]
      [] u.op = "deleteReminder" -> WithoutReminder(d, u.id)
      [] u.op = "markAllRemindersAsSeen" ->
            [notifications |->
                [i \in 1..Len(d.notifications) |->
                    IF d.notifications[i].type = "reminder" /\ ~d.notifications[i].seen
                    THEN MarkSeen(d.notifications[i]) ELSE d.notifications[i]]]
      [] u.op = "markAllInteractionsAsRead" ->
            [notifications |->
                [i \in 1..Len(d.notifications) |-> MarkSeen(d.notifications[i])]]
      [] u.op = "clearDataSection" ->
            (u.key :> EmptySection(u.key))
      [] u.op = "setHiddenGenres" -> [hiddenGenres |-> u.genres]
      [] u.op = "setSensitiveContentUnlocked" -> [sensitiveContentUnlocked |-> u.unlocked]
      [] u.op = "setStorageQuota" -> [storageQuota |-> u.bytes]

updatedData(u, currentData) == Merge(currentData, getNewData(u, currentData))

\* Stale-snapshot variant: every updater of a batch merges into the data of the
\* last render.
RECURSIVE RunUpdatersStale(_, _)
RunUpdatersStale(q, d) ==
    IF q = <<>> THEN <<>> ELSE <<updatedData(Head(q), d)>> \o RunUpdatersStale(Tail(q), d)

\* setListData(currentData => ...): React runs the queued updaters in call
\* order, each on the result of the one before.  The result is the sequence
\* of the updatedData values, one per call.
RECURSIVE RunUpdaters(_, _)
RunUpdaters(q, d) ==
    IF q = <<>> THEN <<>>
    ELSE LET u == updatedData(Head(q), d) IN <<u>> \o RunUpdaters(Tail(q), u)

\* updateAndPersistListData(getNewData): hands the updater to setListData.
updateAndPersistListData(u) ==
    /\ updateQueue' = Append(updateQueue, u)
    /\ expected' = updatedData(u, expected)

\* A render flushes the queued updaters.  Each one calls
\* checkStorageAndNotify(updatedData); without navigator.storage.estimate that
\* returns true at once and set(IDB_LIST_DATA_KEY, updatedData) follows.
\* Variant that fails closed: without an estimate nothing is written.
SetAllNone(q, datas) == q

RECURSIVE SetAll(_, _)
SetAll(q, datas) ==
    IF datas = <<>> THEN q
    ELSE SetAll(set(q, IDB_LIST_DATA_KEY, Head(datas), "persist", 0), Tail(datas))

Render ==
    /\ updateQueue # <<>> \/ checkingUpdates # <<>>
    /\ LET datas == RunUpdaters(updateQueue, listData) IN
        /\ listData' = IF datas = <<>> THEN listData ELSE datas[Len(datas)]
        /\ IF hasEstimate
           THEN persists' = persists \o datas /\ UNCHANGED txQueue
           ELSE txQueue' = SetAll(txQueue, datas) /\ UNCHANGED persists
    /\ updateQueue' = <<>>
    /\ UNCHANGED <<expected, store, hasEstimate, trackedMedia, timers, calls, nextId>>
    /\ isCheckingForUpdates' = IF checkingUpdates = <<>> THEN isCheckingForUpdates
                               ELSE checkingUpdates[Len(checkingUpdates)]
    /\ checkingUpdates' = <<>>
    /\ UNCHANGED <<now, created, passRun>>
    /\ UNCHANGED syncVars
    /\ UNCHANGED <<exportTask, dueResult, runs>>
    /\ UNCHANGED <<authMode, signOutTask, hidden, loadTask, imgVars>>
    /\ reconciler' = EffectRun(\/ isCheckingForUpdates' # isCheckingForUpdates
                               \/ listData'.currentlyWatching # listData.currentlyWatching
                               \/ listData'.currentlyReading # listData.currentlyReading)

\* ------------------------------------------------------ storage quota guard
Usages == {0, DEFAULT_STORAGE_QUOTA + 1}

RemoveAt(seq, i) == SubSeq(seq, 1, i - 1) \o SubSeq(seq, i + 1, Len(seq))

StorageNotification(id) ==
    [id |-> id, type |-> "storage", reminderId |-> 0, mediaId |-> 0, seen |-> FALSE]

\* What the quota guard writes when usage > quota.
VetoPayload(data, id) ==
    [data EXCEPT !.notifications = Append(@, StorageNotification(id))]

\* checkStorageAndNotify(updatedData) after `await navigator.storage.estimate()`,
\* and the .then(canWrite => ...) of updateAndPersistListData.
checkStorageAndNotify(i, usage) ==
    /\ i \in 1..Len(persists)
    /\ LET data == persists[i]
           quota == IF data.storageQuota = 0 THEN DEFAULT_STORAGE_QUOTA
                    ELSE data.storageQuota
       IN IF usage > quota
          THEN /\ txQueue' = set(txQueue, IDB_LIST_DATA_KEY, VetoPayload(data, nextId),
                                 "veto", 0)
               /\ nextId' = nextId + 1
          ELSE /\ txQueue' = set(txQueue, IDB_LIST_DATA_KEY, data, "persist", 0)
               /\ UNCHANGED nextId
    /\ persists' = RemoveAt(persists, i)
    /\ UNCHANGED <<listData, updateQueue, expected, store, hasEstimate, trackedMedia,
                   timers, calls>>
    /\ UNCHANGED remVars
    /\ UNCHANGED syncVars
    /\ UNCHANGED auxVars

\* The oldest IndexedDB transaction completes.
StoreCommit ==
    /\ txQueue # <<>>
    /\ store' = CommitTx(store, Head(txQueue))
    /\ txQueue' = Tail(txQueue)
    /\ UNCHANGED <<listData, updateQueue, expected, persists, hasEstimate, trackedMedia,
                   timers, calls, nextId>>
    /\ UNCHANGED remVars
    /\ UNCHANGED syncVars
    /\ UNCHANGED auxVars

\* ------------------------------------------------------------ list toggles
CanCall == calls < MaxCalls /\ Len(updateQueue) < MaxQueue

Timer(kind, id) ==
    [tid |-> calls + 1, kind |-> kind, id |-> id, pc |-> "armed",
     currentTracked |-> <<>>, newTracked |-> <<>>]

handleToggleListMembership(id, listName) ==
    /\ CanCall
    /\ updateAndPersistListData([op |-> "toggle", list |-> listName, id |-> id])
    /\ timers' = timers \cup {Timer("membership", id)}
    /\ calls' = calls + 1
    /\ UNCHANGED <<listData, persists, txQueue, store, hasEstimate, trackedMedia, nextId>>
    /\ UNCHANGED remVars
    /\ UNCHANGED syncVars
    /\ UNCHANGED auxVars

togglePlanToWatch(id) == handleToggleListMembership(id, "planToWatch")
togglePlanToRead(id) == handleToggleListMembership(id, "planToRead")

toggleCurrentlyWatching(id) ==
    /\ CanCall
    /\ updateAndPersistListData([op |-> "toggleCurrentlyWatching", id |-> id])
    /\ timers' = timers \cup {Timer("add", id)}
    /\ calls' = calls + 1
    /\ UNCHANGED <<listData, persists, txQueue, store, hasEstimate, trackedMedia, nextId>>
    /\ UNCHANGED remVars
    /\ UNCHANGED syncVars
    /\ UNCHANGED auxVars

toggleCurrentlyReading(id) ==
    /\ CanCall
    /\ updateAndPersistListData([op |-> "toggleCurrentlyReading", id |-> id])
    /\ timers' = timers \cup {Timer("add", id)}
    /\ calls' = calls + 1
    /\ UNCHANGED <<listData, persists, txQueue, store, hasEstimate, trackedMedia, nextId>>
    /\ UNCHANGED remVars
    /\ UNCHANGED syncVars
    /\ UNCHANGED auxVars

RemoveListNames == {"watching", "plan-to-watch", "completed", "reading", "plan-to-read", "read"}

RemoveUpdater(itemId, listName) ==
    CASE listName = "watching" -> [op |-> "remove", list |-> "currentlyWatching", id |-> itemId]
      [] listName = "plan-to-watch" -> [op |-> "remove", list |-> "planToWatch", id |-> itemId]
      [] listName = "completed" -> [op |-> "unwatchAllEpisodes", id |-> itemId]
      [] listName = "reading" -> [op |-> "remove", list |-> "currentlyReading", id |-> itemId]
      [] listName = "plan-to-read" -> [op |-> "remove", list |-> "planToRead", id |-> itemId]
      [] listName = "read" -> [op |-> "unmarkAllChaptersRead", id |-> itemId]

removeItemFromList(itemId, listName) ==
    /\ CanCall
    /\ updateAndPersistListData(RemoveUpdater(itemId, listName))
    /\ calls' = calls + 1
    /\ UNCHANGED <<listData, persists, txQueue, store, hasEstimate, trackedMedia, timers,
                   nextId>>
    /\ UNCHANGED remVars
    /\ UNCHANGED syncVars
    /\ UNCHANGED auxVars

\* --------------------------------------------- the 100 ms membership timers
HasId(tracked, id) == \E i \in 1..Len(tracked) : tracked[i].id = id

\* A timer fires after the render its call scheduled.
\* const currentTracked = await get(IDB_TRACKED_MEDIA_KEY) || []
TimerGetTracked(t) ==
    /\ t \in timers /\ t.pc = "armed"
    /\ updateQueue = <<>>
    /\ LET currentTracked == OrElse(Get(IDB_TRACKED_MEDIA_KEY), <<>>)
           newTracked == Append(currentTracked, WithoutSynopsis(Media(t.id)))
       IN IF t.kind = "membership"
          THEN /\ timers' = (timers \ {t}) \cup
                     {[t EXCEPT !.pc = "gotTracked", !.currentTracked = currentTracked]}
               /\ UNCHANGED txQueue
          ELSE IF ~HasId(currentTracked, t.id)
          THEN /\ txQueue' = set(txQueue, IDB_TRACKED_MEDIA_KEY, newTracked, "tracked", t.tid)
               /\ timers' = (timers \ {t}) \cup
                     {[t EXCEPT !.pc = "setting", !.newTracked = newTracked]}
          ELSE /\ timers' = timers \ {t}
               /\ UNCHANGED txQueue
    /\ UNCHANGED <<listData, updateQueue, expected, persists, store, hasEstimate,
                   trackedMedia, calls, nextId>>
    /\ UNCHANGED remVars
    /\ UNCHANGED syncVars
    /\ UNCHANGED auxVars

\* ['planToWatch', ...].some(list => freshListData[list]?.includes(media.id))
isInAnyList(freshListData, id) == \E l \in ListNames : Includes(freshListData[l], id)

\* const freshListData = await get(IDB_LIST_DATA_KEY) || initialListData, and
\* the membership decision of handleToggleListMembership's timer.
TimerGetListData(t) ==
    /\ t \in timers /\ t.pc = "gotTracked"
    /\ LET freshListData == OrElse(Get(IDB_LIST_DATA_KEY), initialListData)
           added == Append(t.currentTracked, WithoutSynopsis(Media(t.id)))
           removed == SelectSeq(t.currentTracked, LAMBDA item : item.id # t.id)
       IN IF isInAnyList(freshListData, t.id)
          THEN IF ~HasId(t.currentTracked, t.id)
               THEN /\ txQueue' = set(txQueue, IDB_TRACKED_MEDIA_KEY, added, "tracked", t.tid)
                    /\ timers' = (timers \ {t}) \cup
                          {[t EXCEPT !.pc = "setting", !.newTracked = added]}
               ELSE /\ timers' = timers \ {t}
                    /\ UNCHANGED txQueue
          ELSE /\ txQueue' = set(txQueue, IDB_TRACKED_MEDIA_KEY, removed, "tracked", t.tid)
               /\ timers' = (timers \ {t}) \cup
                     {[t EXCEPT !.pc = "setting", !.newTracked = removed]}
    /\ UNCHANGED <<listData, updateQueue, expected, persists, store, hasEstimate,
                   trackedMedia, calls, nextId>>
    /\ UNCHANGED remVars
    /\ UNCHANGED syncVars
    /\ UNCHANGED auxVars

Committed(owner) == \A i \in 1..Len(txQueue) : txQueue[i].owner # owner

\* After `await set(IDB_TRACKED_MEDIA_KEY, newTracked)`: setTrackedMedia(newTracked).
TimerSetTracked(t) ==
    /\ t \in timers /\ t.pc = "setting"
    /\ Committed(t.tid)
    /\ trackedMedia' = t.newTracked
    /\ timers' = timers \ {t}
    /\ UNCHANGED <<listData, updateQueue, expected, persists, txQueue, store, hasEstimate,
                   calls, nextId>>
    /\ UNCHANGED remVars
    /\ UNCHANGED syncVars
    /\ UNCHANGED <<exportTask, dueResult, recVars, authMode, signOutTask, hidden, loadTask, imgVars>>
    /\ reconciler' = EffectRun(t.newTracked # trackedMedia)

\* --------------------------------------------------------- the list engine
LocalProfile == [username |-> "user"]

\* A profile that has tracked media 1 in planToWatch and persisted it.
seededListData == [initialListData EXCEPT !.planToWatch = <<1>>]

InitTasks ==
    /\ updateQueue = <<>>
    /\ persists = <<>>
    /\ txQueue = <<>>
    /\ timers = {}
    /\ calls = 0
    /\ nextId = 1
    /\ now = 1
    /\ passRun = [n |-> 0, had |-> {}]
    /\ created = [r \in {} |-> 0]
    /\ sharedDataConfig = OrElse(store[IDB_SHARED_DATA_KEY],
                                 [url |-> Absent, lastSync |-> Absent, lastSize |-> Absent,
                                  lastEtag |-> Absent])
    /\ isSyncing = FALSE
    /\ syncs = {}
    /\ reloadPending = "none"
    /\ exportTask = noExport
    /\ dueResult = Absent
    /\ isCheckingForUpdates = FALSE
    /\ checkingUpdates = <<>>
    /\ runs = {}
    /\ authMode = (IF store[IDB_PROFILE_KEY] = Absent THEN "none" ELSE "local")
    /\ signOutTask = noSignOut
    /\ reconciler = [armed |-> (store[IDB_PROFILE_KEY] # Absent), fired |-> 0]
    /\ cacheReady = FALSE
    /\ imageTask = noImage
    /\ hidden = Absent

\* loadListData has completed.
InitRest == InitTasks /\ loadTask = "loaded"

\* The state after mount in local mode: loadListData has read the store.
Init ==
    /\ hasEstimate \in BOOLEAN
    /\ \/ /\ store = [emptyStore EXCEPT ![IDB_PROFILE_KEY] = Present(LocalProfile)]
          /\ listData = initialListData
          /\ trackedMedia = <<>>
       \/ /\ store = [emptyStore EXCEPT
                        ![IDB_PROFILE_KEY] = Present(LocalProfile),
                        ![IDB_LIST_DATA_KEY] = Present(seededListData),
                        ![IDB_TRACKED_MEDIA_KEY] = Present(<<WithoutSynopsis(Media(1))>>)]
          /\ listData = seededListData
          /\ trackedMedia = <<WithoutSynopsis(Media(1))>>
    /\ expected = listData
    /\ InitRest

Next ==
    \/ \E id \in Ids : togglePlanToWatch(id)
    \/ \E id \in Ids : togglePlanToRead(id)
    \/ \E id \in Ids : toggleCurrentlyWatching(id)
    \/ \E id \in Ids : toggleCurrentlyReading(id)
    \/ \E id \in Ids, listName \in RemoveListNames : removeItemFromList(id, listName)
    \/ Render
    \/ \E i \in 1..Len(persists), usage \in Usages : checkStorageAndNotify(i, usage)
    \/ StoreCommit
    \/ \E t \in timers : TimerGetTracked(t)
    \/ \E t \in timers : TimerGetListData(t)
    \/ \E t \in timers : TimerSetTracked(t)

Spec == Init /\ [][Next]_vars

\* Media 1 planned and being watched, media 2 planned and being read.
plannedListData ==
    [initialListData EXCEPT !.planToWatch = <<1>>, !.currentlyWatching = <<1>>,
                            !.planToRead = <<2>>, !.currentlyReading = <<2>>]

\* Mounted in local mode with media 1 planned, or with both media planned and
\* current.
InitPlanned ==
    /\ hasEstimate \in BOOLEAN
    /\ \/ listData = seededListData /\ trackedMedia = <<WithoutSynopsis(Media(1))>>
       \/ /\ listData = plannedListData
          /\ trackedMedia = <<WithoutSynopsis(Media(1)), WithoutSynopsis(Media(2))>>
    /\ store = [emptyStore EXCEPT
                  ![IDB_PROFILE_KEY] = Present(LocalProfile),
                  ![IDB_LIST_DATA_KEY] = Present(listData),
                  ![IDB_TRACKED_MEDIA_KEY] = Present(trackedMedia)]
    /\ expected = listData
    /\ InitRest

SpecPlanned == InitPlanned /\ [][Next]_vars

\* ------------------------------------------------------ reminder scheduler
\* isPast(date): date < Date.now()
isPast(t) == t < now

\* isMediaCompleted(reminder), over the trackedMedia and listData of the
\* last render.
isMediaCompleted(reminder) ==
    IF ~reminder.autoStopOnCompletion THEN FALSE
    ELSE IF ~HasId(trackedMedia, reminder.mediaId) THEN FALSE
    ELSE LET media == CHOOSE m \in {trackedMedia[i] : i \in 1..Len(trackedMedia)} :
                          m.id = reminder.mediaId
             totalUnits == IF media.type = "MANGA"
                           THEN (IF media.chapters # 0 THEN media.chapters ELSE media.volumes)
                           ELSE media.episodes
         IN IF totalUnits = 0 THEN FALSE
            ELSE IF media.type = "MANGA"
                 THEN Cardinality(listData.readChapters[media.id]) >= totalUnits
                 ELSE Cardinality(listData.watchedEpisodes[media.id]) >= totalUnits

\* new Set(notifications.filter(n => n.type === 'reminder').map(n => n.reminderId))
existingReminderNotifications(notifications) ==
    {notifications[i].reminderId :
        i \in {j \in 1..Len(notifications) : notifications[j].type = "reminder"}}

\* Variant without the existing-notification check.
NeedsNotificationAlways(reminder, notifications) ==
    isPast(reminder.startDateTime) /\ ~isMediaCompleted(reminder)

\* The condition under which the forEach of
\* checkRemindersAndCreateNotifications pushes a notification.
NeedsNotification(reminder, notifications) ==
    /\ isPast(reminder.startDateTime)
    /\ reminder.id \notin existingReminderNotifications(notifications)
    /\ ~isMediaCompleted(reminder)

ReminderNotification(id, reminder) ==
    [id |-> id, type |-> "reminder", reminderId |-> reminder.id,
     mediaId |-> reminder.mediaId, seen |-> FALSE]

\* newNotifications, with ids drawn from firstId on.
newNotifications(reminders, notifications, firstId) ==
    LET due == SelectSeq(reminders, LAMBDA r : NeedsNotification(r, notifications))
    IN [i \in 1..Len(due) |-> ReminderNotification(firstId + i - 1, due[i])]

Bump(f, r) == IF r \in DOMAIN f THEN [f EXCEPT ![r] = @ + 1] ELSE f @@ (r :> 1)

RECURSIVE BumpAll(_, _)
BumpAll(f, ns) == IF ns = <<>> THEN f ELSE BumpAll(Bump(f, Head(ns).reminderId), Tail(ns))

\* One scheduler pass: the effect's immediate call or a tick of its 10 s
\* interval.  It runs on the reminders and notifications of the last render.
checkRemindersAndCreateNotifications ==
    /\ updateQueue = <<>>
    /\ passRun.n < MaxPasses
    /\ LET new == newNotifications(listData.reminders, listData.notifications, nextId) IN
        /\ IF new # <<>>
           THEN updateAndPersistListData([op |-> "appendNotifications", notifications |-> new])
           ELSE UNCHANGED <<updateQueue, expected>>
        /\ nextId' = nextId + Len(new)
        /\ created' = BumpAll(created, new)
    /\ passRun' = [n |-> passRun.n + 1,
                   had |-> IF passRun.n = 0
                           THEN existingReminderNotifications(listData.notifications)
                           ELSE passRun.had]
    /\ UNCHANGED <<listData, persists, txQueue, store, hasEstimate, trackedMedia, timers,
                   calls, now>>
    /\ UNCHANGED syncVars
    /\ UNCHANGED auxVars

noRun == [n |-> 0, had |-> {}]

\* What addReminder's caller chooses.
ReminderData ==
    [mediaId : Ids, startDateTime : {0, 1}, repeatIntervalDays : {0, 1},
     repeatOnDays : {{}, {1}}, autoStopOnCompletion : BOOLEAN]

addReminder(reminderData) ==
    /\ CanCall
    /\ updateAndPersistListData(
          [op |-> "addReminder",
           reminder |-> [id |-> nextId,
                         mediaId |-> reminderData.mediaId,
                         startDateTime |-> reminderData.startDateTime,
                         repeatIntervalDays |-> reminderData.repeatIntervalDays,
                         repeatOnDays |-> reminderData.repeatOnDays,
                         autoStopOnCompletion |-> reminderData.autoStopOnCompletion]])
    /\ nextId' = nextId + 1
    /\ calls' = calls + 1
    /\ passRun' = noRun
    /\ UNCHANGED <<listData, persists, txQueue, store, hasEstimate, trackedMedia, timers,
                   now, created>>
    /\ UNCHANGED syncVars
    /\ UNCHANGED auxVars

\* A mutator call that only hands an updater to updateAndPersistListData.
PlainCall(u) ==
    /\ CanCall
    /\ updateAndPersistListData(u)
    /\ calls' = calls + 1
    /\ passRun' = noRun
    /\ UNCHANGED <<listData, persists, txQueue, store, hasEstimate, trackedMedia, timers,
                   nextId, now, created>>
    /\ UNCHANGED syncVars
    /\ UNCHANGED auxVars

ReminderIdsNow == {listData.reminders[i].id : i \in 1..Len(listData.reminders)}

updateReminder(id, data) == PlainCall([op |-> "updateReminder", id |-> id, data |-> data])
deleteReminder(id) == PlainCall([op |-> "deleteReminder", id |-> id])
markAllRemindersAsSeen == PlainCall([op |-> "markAllRemindersAsSeen"])
markAllInteractionsAsRead == PlainCall([op |-> "markAllInteractionsAsRead"])
clearDataSection(key) == PlainCall([op |-> "clearDataSection", key |-> key])
toggleEpisodeWatched(id, episodeId) ==
    PlainCall([op |-> "toggleEpisodeWatched", id |-> id, episode |-> episodeId])
toggleChapterRead(id, chapterId) ==
    PlainCall([op |-> "toggleChapterRead", id |-> id, episode |-> chapterId])

\* Time passes.
Tick ==
    /\ now < MaxNow
    /\ now' = now + 1
    /\ passRun' = noRun
    /\ UNCHANGED mutVars
    /\ UNCHANGED created
    /\ UNCHANGED syncVars
    /\ UNCHANGED auxVars

\* Mounted in local mode with media 1 and 2 tracked and being watched / read.
watchingListData == [initialListData EXCEPT !.currentlyWatching = <<1>>, !.currentlyReading = <<2>>]
watchingTracked == <<WithoutSynopsis(Media(1)), WithoutSynopsis(Media(2))>>

InitRem ==
    /\ hasEstimate = FALSE
    /\ store = [emptyStore EXCEPT
                  ![IDB_PROFILE_KEY] = Present(LocalProfile),
                  ![IDB_LIST_DATA_KEY] = Present(watchingListData),
                  ![IDB_TRACKED_MEDIA_KEY] = Present(watchingTracked)]
    /\ listData = watchingListData
    /\ trackedMedia = watchingTracked
    /\ expected = listData
    /\ InitRest

NextRem ==
    \/ \E d \in ReminderData : addReminder(d)
    \/ \E id \in ReminderIdsNow : updateReminder(id, [startDateTime |-> 0])
    \/ \E id \in ReminderIdsNow : deleteReminder(id)
    \/ markAllRemindersAsSeen
    \/ markAllInteractionsAsRead
    \/ clearDataSection("notifications")
    \/ \E id \in Ids, e \in Episodes : toggleEpisodeWatched(id, e)
    \/ \E id \in Ids, e \in Episodes : toggleChapterRead(id, e)
    \/ Tick
    \/ checkRemindersAndCreateNotifications
    \/ Render
    \/ StoreCommit

SpecRem == InitRem /\ [][NextRem]_vars

\* A light novel as the catalog describes it: chapters, no episodes.
Novel(id) == [Media(id) EXCEPT !.type = "NOVEL", !.episodes = 0, !.chapters = MaxEpisodes]

\* A reminder that has fired, with its notification.
firedReminder ==
    [id |-> 100, mediaId |-> 1, startDateTime |-> 0, repeatIntervalDays |-> 0,
     repeatOnDays |-> {}, autoStopOnCompletion |-> FALSE]

firedListData ==
    [watchingListData EXCEPT
        !.reminders = <<firedReminder>>,
        !.notifications = <<ReminderNotification(101, firedReminder)>>]

\* Mounted in local mode with a fired reminder, media 1 (an anime) and media 2
\* (a manga or a light novel) tracked.
InitFired ==
    /\ hasEstimate = FALSE
    /\ listData = firedListData
    /\ trackedMedia \in {watchingTracked, <<WithoutSynopsis(Media(1)), WithoutSynopsis(Novel(2))>>}
    /\ store = [emptyStore EXCEPT
                  ![IDB_PROFILE_KEY] = Present(LocalProfile),
                  ![IDB_LIST_DATA_KEY] = Present(listData),
                  ![IDB_TRACKED_MEDIA_KEY] = Present(trackedMedia)]
    /\ expected = listData
    /\ InitRest

SpecFired == InitFired /\ [][NextRem]_vars

\* -------------------------------------------------- tracked-media reconciler
\* An episode or chapter count the catalog does not know.
null == 0 - 1

CatalogCounts == {null} \cup 0..MaxCount

\* media.type === 'MANGA' || media.type === 'NOVEL' || media.type === 'ONE_SHOT'
isManga(media) == media.type \in {"MANGA", "NOVEL", "ONE_SHOT"}

\* The record the catalog returns for an id whose count is c.
LatestMedia(id, c) ==
    [Media(id) EXCEPT !.episodes = IF isManga(Media(id)) THEN null ELSE c,
                      !.chapters = IF isManga(Media(id)) THEN c ELSE null]

\* A tracked-media cache entry with count c.
Cached(id, c) == WithoutSynopsis(LatestMedia(id, c))

\* Array.from(mediaToWatchIds): the ids of both lists in insertion order.
mediaToWatchIds(d) ==
    d.currentlyWatching
        \o SelectSeq(d.currentlyReading, LAMBDA id : ~Includes(d.currentlyWatching, id))

\* Map.get(mediaId) on a list of records.
MapGet(records, id) ==
    IF HasId(records, id)
    THEN Present(CHOOSE m \in SetOf(records) : m.id = id)
    ELSE Absent

\* latestMediaData: what getMultipleAnimeFromAniList resolved with, given for
\* each id the count it reports, or nothing when the id is missing.
latestMediaData(latest) ==
    LET present == SelectSeq([i \in 1..MaxId |-> i], LAMBDA id : latest[id] # Absent)
    IN [i \in 1..Len(present) |-> LatestMedia(present[i], latest[present[i]][1])]

oldVal(currentMedia, latestMedia) ==
    IF isManga(latestMedia) THEN currentMedia.chapters ELSE currentMedia.episodes

newVal(latestMedia) ==
    IF isManga(latestMedia) THEN latestMedia.chapters ELSE latestMedia.episodes

\* newVal != null && (oldVal == null || newVal > oldVal)
HasNewUnits(old, new) == new # null /\ (old = null \/ new > old)

\* newVal - (oldVal || 0)
Diff(old, new) == new - (IF old = null THEN 0 ELSE old)

\* The notification addInteraction appends.
NewsNotification(id, media, diff) ==
    [id |-> id, type |-> "news", reminderId |-> 0, mediaId |-> media.id, seen |-> FALSE,
     isManga |-> isManga(media), diff |-> diff]

\* The for loop of checkForUpdates: the ids addInteraction is called for.
idsWithNews(ids, tracked, latestData) ==
    SelectSeq(ids, LAMBDA mediaId :
        /\ MapGet(tracked, mediaId) # Absent /\ MapGet(latestData, mediaId) # Absent
        /\ HasNewUnits(oldVal(MapGet(tracked, mediaId)[1], MapGet(latestData, mediaId)[1]),
                       newVal(MapGet(latestData, mediaId)[1])))

\* addInteraction(latestMedia, diff) for each of them: one mutator call each.
addInteractions(ids, tracked, latestData, firstId) ==
    [i \in 1..Len(ids) |->
        LET currentMedia == MapGet(tracked, ids[i])[1]
            latestMedia == MapGet(latestData, ids[i])[1]
        IN [op |-> "appendNotifications",
            notifications |->
                <<NewsNotification(firstId + i - 1, latestMedia,
                      Diff(oldVal(currentMedia, latestMedia), newVal(latestMedia)))>>]]

\* trackedMedia.map(m => latestMediaMap.get(m.id) || m)
updatedTracked(tracked, latestData) ==
    [i \in 1..Len(tracked) |-> OrElse(MapGet(latestData, tracked[i].id), tracked[i])]

RECURSIVE ApplyAll(_, _)
ApplyAll(d, us) == IF us = <<>> THEN d ELSE ApplyAll(updatedData(Head(us), d), Tail(us))

noLatest == [id \in Ids |-> Absent]

RunTask(pc, ids, tracked) ==
    [rid |-> calls + 1, pc |-> pc, ids |-> ids, tracked |-> tracked, latest |-> noLatest]

\* The body of runChecks(): the guard on the isCheckingForUpdates of the last
\* render, setIsCheckingForUpdates(true), and checkForUpdates up to its fetch,
\* on the listData and trackedMedia of that render.
RunChecksStarted ==
    /\ calls < MaxCalls
    /\ calls' = calls + 1
    /\ IF isCheckingForUpdates
       THEN UNCHANGED <<checkingUpdates, runs>>
       ELSE /\ checkingUpdates' = Append(checkingUpdates, TRUE)
            /\ runs' = runs \cup
                  {RunTask(IF mediaToWatchIds(listData) = <<>> THEN "returned" ELSE "fetching",
                           mediaToWatchIds(listData), trackedMedia)}
    /\ UNCHANGED <<listData, updateQueue, expected, persists, txQueue, store, hasEstimate,
                   trackedMedia, timers, nextId>>
    /\ UNCHANGED remVars
    /\ UNCHANGED syncVars
    /\ UNCHANGED <<exportTask, dueResult, isCheckingForUpdates>>
    /\ UNCHANGED <<authMode, signOutTask, hidden, loadTask, imgVars>>

\* runChecks(), from the UI or from a timer whose firing is not recorded.
runChecks == RunChecksStarted /\ UNCHANGED reconciler

\* The reconciler's setTimeout(runChecks, INITIAL_CHECK_DELAY) fires.
initialTimeout ==
    /\ authMode = "local" /\ reconciler.armed
    /\ RunChecksStarted
    /\ reconciler' = [armed |-> FALSE, fired |-> reconciler.fired + 1]

\* A tick of the reconciler's setInterval(runChecks, UPDATE_INTERVAL).
updateInterval == authMode = "local" /\ runChecks

\* checkForUpdates returned at once (nothing is being watched or read):
\* setIsCheckingForUpdates(false).
RunReturned(s) ==
    /\ s \in runs /\ s.pc = "returned"
    /\ checkingUpdates' = Append(checkingUpdates, FALSE)
    /\ runs' = runs \ {s}
    /\ UNCHANGED mutVars
    /\ UNCHANGED remVars
    /\ UNCHANGED syncVars
    /\ UNCHANGED <<exportTask, dueResult, isCheckingForUpdates>>
    /\ UNCHANGED outVars

\* The catalog fetch of checkForUpdates resolves: the comparison loop with its
\* addInteraction calls, setTrackedMedia(updatedTracked) and the set of the
\* tracked-media key.
RunFetched(s, latest) ==
    /\ s \in runs /\ s.pc = "fetching"
    /\ \A id \in Ids : latest[id] # Absent => Includes(s.ids, id)
    /\ LET latestData == latestMediaData(latest)
           news == addInteractions(idsWithNews(s.ids, s.tracked, latestData),
                                   s.tracked, latestData, nextId)
       IN /\ updateQueue' = updateQueue \o news
          /\ expected' = ApplyAll(expected, news)
          /\ nextId' = nextId + Len(news)
          /\ trackedMedia' = updatedTracked(s.tracked, latestData)
          /\ txQueue' = set(txQueue, IDB_TRACKED_MEDIA_KEY,
                            updatedTracked(s.tracked, latestData), "tracked", s.rid)
    /\ runs' = (runs \ {s}) \cup {[s EXCEPT !.pc = "saving", !.latest = latest]}
    /\ UNCHANGED <<listData, persists, store, hasEstimate, timers, calls>>
    /\ UNCHANGED remVars
    /\ UNCHANGED syncVars
    /\ UNCHANGED <<exportTask, dueResult, isCheckingForUpdates, checkingUpdates>>
    /\ UNCHANGED <<authMode, signOutTask, hidden, loadTask, imgVars>>
    /\ reconciler' = EffectRun(trackedMedia' # trackedMedia)

\* After `await set(IDB_TRACKED_MEDIA_KEY, updatedTracked)`:
\* setIsCheckingForUpdates(false).
RunSaved(s) ==
    /\ s \in runs /\ s.pc = "saving"
    /\ Committed(s.rid)
    /\ checkingUpdates' = Append(checkingUpdates, FALSE)
    /\ runs' = runs \ {s}
    /\ UNCHANGED mutVars
    /\ UNCHANGED remVars
    /\ UNCHANGED syncVars
    /\ UNCHANGED <<exportTask, dueResult, isCheckingForUpdates>>
    /\ UNCHANGED outVars

\* What the catalog can answer: per id a count, or no record.
CatalogAnswers == [Ids -> {Absent} \cup {Present(c) : c \in CatalogCounts}]

\* Mounted in local mode: nothing tracked, or media 1 being watched and media
\* 2 being read, cached with or without a known count, media 2 possibly not
\* cached.
InitRec ==
    /\ hasEstimate = FALSE
    /\ \/ listData = initialListData /\ trackedMedia = <<>>
       \/ /\ listData = watchingListData
          /\ trackedMedia \in
                {<<Cached(1, c)>> : c \in {null, 1}}
                \cup {<<Cached(1, c1), Cached(2, c2)>> : c1 \in {1}, c2 \in {null, 1}}
    /\ store = [emptyStore EXCEPT
                  ![IDB_PROFILE_KEY] = Present(LocalProfile),
                  ![IDB_LIST_DATA_KEY] = Present(listData),
                  ![IDB_TRACKED_MEDIA_KEY] = Present(trackedMedia)]
    /\ expected = listData
    /\ InitRest

NextRec ==
    \/ runChecks
    \/ \E s \in runs : RunReturned(s)
    \/ \E s \in runs, latest \in CatalogAnswers : RunFetched(s, latest)
    \/ \E s \in runs : RunSaved(s)
    \/ Render
    \/ StoreCommit

SpecRec == InitRec /\ [][NextRec]_vars

\* ------------------------------------------------------------ isReminderDue
\* Instants count TicksPerDay per day from a Sunday 00:00; one evaluation of
\* isReminderDue happens at one instant (new Date() and the Date.now() of
\* isPast read the same clock value).
DaysPerWeek == 7

\* date.getDay(): 0 is Sunday.
getDay(t) == (t \div TicksPerDay) % DaysPerWeek

\* date.getHours(), date.getMinutes(): the time of day.
getHours(t) == t % TicksPerDay

\* date.setHours(hours, minutes, 0, 0)
setHours(t, hours) == (t \div TicksPerDay) * TicksPerDay + hours

addDays(t, amount) == t + amount * TicksPerDay

\* date-fns previousDay(date, day): the last such weekday before the date.
previousDay(t, day) ==
    LET delta == getDay(t) - day
    IN addDays(t, 0 - (IF delta <= 0 THEN delta + DaysPerWeek ELSE delta))

\* date-fns nextDay(date, day): the first such weekday after the date, never
\* the date's own day.
nextDay(t, day) ==
    LET delta == day - getDay(t)
    IN addDays(t, IF delta <= 0 THEN delta + DaysPerWeek ELSE delta)

\* The for loop of the weekly branch: false at the first occurrence that is
\* not past (the order of the days does not change the result).
AllOccurrencesPast(reminder) ==
    \A day \in reminder.repeatOnDays :
        isPast(setHours(nextDay(now, day), getHours(reminder.startDateTime)))

\* Variant that is due only on the days that are whole multiples of the
\* interval after the start.
isReminderDueOnIntervalDays(reminder) ==
    IF reminder.repeatIntervalDays = 0 /\ reminder.repeatOnDays = {}
    THEN isPast(reminder.startDateTime)
    ELSE IF reminder.repeatOnDays # {}
    THEN AllOccurrencesPast(reminder)
    ELSE IF isPast(reminder.startDateTime)
    THEN ((now - reminder.startDateTime) \div TicksPerDay) % reminder.repeatIntervalDays = 0
    ELSE FALSE

isReminderDue(reminder) ==
    IF reminder.repeatIntervalDays = 0 /\ reminder.repeatOnDays = {}
    THEN isPast(reminder.startDateTime)
    ELSE IF reminder.repeatOnDays # {}
    THEN AllOccurrencesPast(reminder)
    ELSE IF isPast(reminder.startDateTime)
    THEN LET daysSinceStart == (now - reminder.startDateTime) \div TicksPerDay
         IN daysSinceStart % reminder.repeatIntervalDays = 0 \/ daysSinceStart > 0
    ELSE FALSE

\* The reminders isReminderDue is evaluated on: one-shot, interval (every 2
\* or 3 days), and weekly
\* on Monday, on Monday and Thursday, on Sunday and Saturday.
DueReminders ==
    [id : {1}, mediaId : {1}, startDateTime : {2, 3, 9},
     repeatIntervalDays : {0, 2, 3}, repeatOnDays : {{}, {1}, {1, 4}, {0, 6}},
     autoStopOnCompletion : {FALSE}]

MaxDueNow == MaxWeeks * DaysPerWeek * TicksPerDay

\* isReminderDue(reminder) is called.
Evaluate ==
    /\ listData.reminders # <<>>
    /\ dueResult' = Present(isReminderDue(listData.reminders[1]))
    /\ UNCHANGED mutVars
    /\ UNCHANGED remVars
    /\ UNCHANGED syncVars
    /\ UNCHANGED <<exportTask, recVars>>
    /\ UNCHANGED outVars

\* Time passes.
DueTick ==
    /\ now < MaxDueNow
    /\ now' = now + 1
    /\ dueResult' = Absent
    /\ UNCHANGED mutVars
    /\ UNCHANGED <<passRun, created>>
    /\ UNCHANGED syncVars
    /\ UNCHANGED <<exportTask, recVars>>
    /\ UNCHANGED outVars

InitDue ==
    /\ hasEstimate = FALSE
    /\ \E r \in DueReminders : listData = [initialListData EXCEPT !.reminders = <<r>>]
    /\ store = [emptyStore EXCEPT
                  ![IDB_PROFILE_KEY] = Present(LocalProfile),
                  ![IDB_LIST_DATA_KEY] = Present(listData)]
    /\ trackedMedia = <<>>
    /\ expected = listData
    /\ InitRest

NextDue == Evaluate \/ DueTick

SpecDue == InitDue /\ [][NextDue]_vars

\* ------------------------------------------------- shared-data sync client
nullConfig == [url |-> Absent, lastSync |-> Absent, lastSize |-> Absent, lastEtag |-> Absent]

\* The document behind the shared url, and the file handed to importData.
RemoteSnapshot ==
    [profile |-> [username |-> "remote"],
     lists |-> [initialListData EXCEPT !.planToRead = <<2>>],
     layout |-> <<"remote-layout">>,
     tracked |-> <<WithoutSynopsis(Media(2))>>]

FileSnapshot ==
    [profile |-> [username |-> "file"],
     lists |-> [initialListData EXCEPT !.currentlyWatching = <<1>>],
     layout |-> <<"file-layout">>,
     tracked |-> <<WithoutSynopsis(Media(1))>>]

\* What a fetch of the relay can end in: status 304; status OK with a document
\* holding profile, lists and (okFull) layout and tracked; OK with a document
\* lacking profile or lists; OK with a body that is no JSON; another status;
\* a rejected fetch.
Responses == {"304", "okFull", "okMinimal", "noProfile", "noLists", "unparsable",
              "badStatus", "reject"}

\* What reading and parsing an import file can end in.
FileContents == {"okFull", "okMinimal", "noProfile", "noLists", "unparsable"}

Finished == {"done", "failed", "skipped"}

Unfinished(tasks) == {s \in tasks : s.pc \notin Finished}

SyncTask(kind, manual, closure, pc, config) ==
    [sid |-> calls + 1, kind |-> kind, manual |-> manual, isSyncing |-> closure,
     pc |-> pc, currentConfig |-> config, ifNoneMatch |-> FALSE, response |-> "none",
     written |-> 0]

\* Variant without the 304 branch.
isNotModifiedNever(response) == FALSE

\* response.status === 304
isNotModified(response) == response = "304"

\* Variant that accepts a document as soon as it has a profile.
hasProfileOnly(response) == response \in {"okFull", "okMinimal", "noLists"}

\* !(!data.profile || !data.lists)
hasProfileAndLists(response) == response \in {"okFull", "okMinimal"}

\* JSON.stringify(allData): a key whose value is undefined is left out.
stringify(allData) ==
    [k \in {key \in DOMAIN allData : allData[key] # Absent} |-> allData[k][1]]

\* data.key of a parsed document: undefined when the key is missing.
Field(doc, key) == IF key \in DOMAIN doc THEN Present(doc[key]) ELSE Absent

\* JSON.parse of the file exportData downloaded.
ExportedFile == stringify(exportTask.allData)

\* The parsed document of a sync (the relay's), of an import of some file, or
\* of an import of the exported file ("restore").
data(s) ==
    IF s.kind = "import" THEN FileSnapshot
    ELSE IF s.kind = "restore" THEN ExportedFile
    ELSE RemoteSnapshot

\* if (data.layout) ... ; if (data.tracked) ...
OptionalWrites(doc) ==
    (IF Field(doc, "layout") # Absent
     THEN <<[key |-> IDB_LAYOUT_CONFIG_KEY, value |-> doc.layout]>> ELSE <<>>)
    \o (IF Field(doc, "tracked") # Absent
        THEN <<[key |-> IDB_TRACKED_MEDIA_KEY, value |-> doc.tracked]>> ELSE <<>>)

\* The config a successful sync stores.
newConfig(s) ==
    [s.currentConfig EXCEPT !.lastSync = Present(now), !.lastEtag = Present("etag-1"),
                            !.lastSize = Present(1)]

\* The set(...) calls of a successful sync or import, in order.
Writes(s) ==
    <<[key |-> IDB_PROFILE_KEY, value |-> data(s).profile],
      [key |-> IDB_LIST_DATA_KEY, value |-> data(s).lists]>>
    \o (IF s.response = "okFull" THEN OptionalWrites(data(s)) ELSE <<>>)
    \o (IF s.kind = "sync"
        THEN <<[key |-> IDB_SHARED_DATA_KEY, value |-> newConfig(s)]>>
        ELSE <<>>)

Replace(tasks, s, s2) == (tasks \ {s}) \cup {s2}

\* syncSharedData(isManualTrigger) is called: it starts
\* `await get(IDB_SHARED_DATA_KEY)`.  The isSyncing it will test is the one
\* of the render the callback comes from.
syncSharedData(isManualTrigger) ==
    /\ calls < MaxCalls
    /\ syncs' = Unfinished(syncs) \cup
          {SyncTask("sync", isManualTrigger, isSyncing, "getConfig",
                    OrElse(Get(IDB_SHARED_DATA_KEY), nullConfig))}
    /\ calls' = calls + 1
    /\ UNCHANGED <<listData, updateQueue, expected, persists, txQueue, store, hasEstimate,
                   trackedMedia, timers, nextId>>
    /\ UNCHANGED remVars
    /\ UNCHANGED <<sharedDataConfig, isSyncing, reloadPending>>
    /\ UNCHANGED auxVars

\* Variant that sends the stored ETag on manual syncs too.
SyncGuardConditional(s) ==
    /\ s \in syncs /\ s.pc = "getConfig"
    /\ IF s.currentConfig.url = Absent \/ s.isSyncing
       THEN /\ syncs' = Replace(syncs, s, [s EXCEPT !.pc = "skipped"])
            /\ UNCHANGED isSyncing
       ELSE /\ syncs' = Replace(syncs, s,
                    [s EXCEPT !.pc = "fetching",
                              !.ifNoneMatch = s.currentConfig.lastEtag # Absent])
            /\ isSyncing' = TRUE
    /\ UNCHANGED mutVars
    /\ UNCHANGED remVars
    /\ UNCHANGED <<sharedDataConfig, reloadPending>>
    /\ UNCHANGED auxVars

\* After the get: the two early returns, setIsSyncing(true), and the fetch.
SyncGuard(s) ==
    /\ s \in syncs /\ s.pc = "getConfig"
    /\ IF s.currentConfig.url = Absent \/ s.isSyncing
       THEN /\ syncs' = Replace(syncs, s, [s EXCEPT !.pc = "skipped"])
            /\ UNCHANGED isSyncing
       ELSE /\ syncs' = Replace(syncs, s,
                    [s EXCEPT !.pc = "fetching",
                              !.ifNoneMatch = ~s.manual /\ s.currentConfig.lastEtag # Absent])
            /\ isSyncing' = TRUE
    /\ UNCHANGED mutVars
    /\ UNCHANGED remVars
    /\ UNCHANGED <<sharedDataConfig, reloadPending>>
    /\ UNCHANGED auxVars

\* disconnectFromSharedData: setSharedDataConfig(newConfig); set(key, newConfig)
disconnectFromSharedData ==
    /\ calls < MaxCalls
    /\ sharedDataConfig' = nullConfig
    /\ txQueue' = set(txQueue, IDB_SHARED_DATA_KEY, nullConfig, "config", 0)
    /\ calls' = calls + 1
    /\ UNCHANGED <<listData, updateQueue, expected, persists, store, hasEstimate,
                   trackedMedia, timers, nextId>>
    /\ UNCHANGED remVars
    /\ UNCHANGED <<isSyncing, syncs, reloadPending>>
    /\ UNCHANGED auxVars

\* The fetch settles (and response.json() with it).
SyncFetched(s, response) ==
    /\ s \in syncs /\ s.pc = "fetching"
    /\ LET r == [s EXCEPT !.response = response] IN
       IF isNotModified(response)
       THEN /\ syncs' = Replace(syncs, s, [r EXCEPT !.pc = "done"])
            /\ isSyncing' = FALSE
            /\ UNCHANGED <<txQueue, sharedDataConfig>>
       ELSE IF hasProfileAndLists(response)
       THEN /\ txQueue' = set(txQueue, Writes(r)[1].key, Writes(r)[1].value, "sync", s.sid)
            /\ syncs' = Replace(syncs, s, [r EXCEPT !.pc = "writing", !.written = 1])
            /\ UNCHANGED <<isSyncing, sharedDataConfig>>
       ELSE \* catch: disconnectFromSharedData(false); finally: setIsSyncing(false)
            /\ sharedDataConfig' = nullConfig
            /\ txQueue' = set(txQueue, IDB_SHARED_DATA_KEY, nullConfig, "config", 0)
            /\ syncs' = Replace(syncs, s, [r EXCEPT !.pc = "failed"])
            /\ isSyncing' = FALSE
    /\ UNCHANGED <<listData, updateQueue, expected, persists, store, hasEstimate,
                   trackedMedia, timers, calls, nextId>>
    /\ UNCHANGED remVars
    /\ UNCHANGED reloadPending
    /\ UNCHANGED auxVars

\* After an `await set(...)`: the next set of the sync or import.
SyncWrite(s) ==
    /\ s \in syncs /\ s.pc = "writing"
    /\ Committed(s.sid)
    /\ s.written < Len(Writes(s))
    /\ LET w == Writes(s)[s.written + 1] IN
        /\ txQueue' = set(txQueue, w.key, w.value, "sync", s.sid)
        /\ sharedDataConfig' = IF w.key = IDB_SHARED_DATA_KEY THEN w.value
                               ELSE sharedDataConfig
    /\ syncs' = Replace(syncs, s, [s EXCEPT !.written = s.written + 1])
    /\ UNCHANGED <<listData, updateQueue, expected, persists, store, hasEstimate,
                   trackedMedia, timers, calls, nextId>>
    /\ UNCHANGED remVars
    /\ UNCHANGED <<isSyncing, reloadPending>>
    /\ UNCHANGED auxVars

\* Variant without the finally block.
SyncFinishBusy(s) ==
    /\ s \in syncs /\ s.pc = "writing"
    /\ Committed(s.sid)
    /\ s.written = Len(Writes(s))
    /\ reloadPending' = s.kind
    /\ syncs' = Replace(syncs, s, [s EXCEPT !.pc = "done"])
    /\ UNCHANGED mutVars
    /\ UNCHANGED remVars
    /\ UNCHANGED <<sharedDataConfig, isSyncing>>
    /\ UNCHANGED auxVars

\* After the last set: setTimeout(() => window.location.reload(), 1500), and
\* for a sync the finally block.
SyncFinish(s) ==
    /\ s \in syncs /\ s.pc = "writing"
    /\ Committed(s.sid)
    /\ s.written = Len(Writes(s))
    /\ reloadPending' = s.kind
    /\ isSyncing' = IF s.kind = "sync" THEN FALSE ELSE isSyncing
    /\ syncs' = Replace(syncs, s, [s EXCEPT !.pc = "done"])
    /\ UNCHANGED mutVars
    /\ UNCHANGED remVars
    /\ UNCHANGED sharedDataConfig
    /\ UNCHANGED auxVars

\* connectToSharedData(url): setSharedDataConfig; await set(...)
connectToSharedData ==
    /\ calls < MaxCalls
    /\ LET config == [nullConfig EXCEPT !.url = Present("url")] IN
        /\ sharedDataConfig' = config
        /\ txQueue' = set(txQueue, IDB_SHARED_DATA_KEY, config, "config", calls + 1)
        /\ syncs' = Unfinished(syncs) \cup
              {SyncTask("connect", TRUE, isSyncing, "connecting", config)}
    /\ calls' = calls + 1
    /\ UNCHANGED <<listData, updateQueue, expected, persists, store, hasEstimate,
                   trackedMedia, timers, nextId>>
    /\ UNCHANGED remVars
    /\ UNCHANGED <<isSyncing, reloadPending>>
    /\ UNCHANGED auxVars

\* ... then `await syncSharedData(true)`, through the syncSharedData of the
\* render connectToSharedData was created in.
ConnectSync(s) ==
    /\ s \in syncs /\ s.pc = "connecting"
    /\ Committed(s.sid)
    /\ syncs' = Replace(syncs, s,
          [s EXCEPT !.kind = "sync", !.pc = "getConfig",
                    !.currentConfig = OrElse(Get(IDB_SHARED_DATA_KEY), nullConfig)])
    /\ UNCHANGED mutVars
    /\ UNCHANGED remVars
    /\ UNCHANGED <<sharedDataConfig, isSyncing, reloadPending>>
    /\ UNCHANGED auxVars

\* importData(file): reader.readAsText(file)
importData ==
    /\ calls < MaxCalls
    /\ syncs' = Unfinished(syncs) \cup {SyncTask("import", TRUE, FALSE, "reading", nullConfig)}
    /\ calls' = calls + 1
    /\ UNCHANGED <<listData, updateQueue, expected, persists, txQueue, store, hasEstimate,
                   trackedMedia, timers, nextId>>
    /\ UNCHANGED remVars
    /\ UNCHANGED <<sharedDataConfig, isSyncing, reloadPending>>
    /\ UNCHANGED auxVars

\* What reading the exported file back gives.
ExportedContent ==
    IF Field(ExportedFile, "profile") = Absent THEN "noProfile"
    ELSE IF Field(ExportedFile, "lists") = Absent THEN "noLists"
    ELSE "okFull"

\* reader.onload: JSON.parse, the structure check, the first set.
ImportLoaded(s, content) ==
    /\ s \in syncs /\ s.pc = "reading"
    /\ s.kind = "restore" => content = ExportedContent
    /\ LET r == [s EXCEPT !.response = content] IN
       IF hasProfileAndLists(content)
       THEN /\ txQueue' = set(txQueue, Writes(r)[1].key, Writes(r)[1].value, "sync", s.sid)
            /\ syncs' = Replace(syncs, s, [r EXCEPT !.pc = "writing", !.written = 1])
       ELSE /\ syncs' = Replace(syncs, s, [r EXCEPT !.pc = "failed"])
            /\ UNCHANGED txQueue
    /\ UNCHANGED <<listData, updateQueue, expected, persists, store, hasEstimate,
                   trackedMedia, timers, calls, nextId>>
    /\ UNCHANGED remVars
    /\ UNCHANGED <<sharedDataConfig, isSyncing, reloadPending>>
    /\ UNCHANGED auxVars

\* Variant that substitutes a default without the sensitive genres.
loadListDataBare(stored) ==
    IF stored = Absent THEN [initialListData EXCEPT !.hiddenGenres = {}]
    ELSE stored[1]

\* Variant without the migration of the retired key.
loadListDataLegacy(stored) ==
    IF stored = Absent THEN initialListData
    ELSE LET loaded == stored[1] IN
         Merge(loaded,
               [hiddenGenres |-> OrElse(Field(loaded, "hiddenGenres"), SENSITIVE_GENRES),
                notificationsLayout |->
                    OrElse(Field(loaded, "notificationsLayout"),
                           <<"updates", "reminders", "logs">>),
                storageQuota |->
                    IF OrElse(Field(loaded, "storageQuota"), 0) = 0
                    THEN DEFAULT_STORAGE_QUOTA ELSE loaded.storageQuota])

\* loadListData's treatment of the stored value: initialListData when there is
\* none; else the defaults for a missing hiddenGenres, notificationsLayout or
\* storageQuota, and the retired key 'news' taken out of the layout and of
\* the pinned tab.
loadListData(stored) ==
    IF stored = Absent THEN initialListData
    ELSE LET loaded == stored[1] IN
         Merge(loaded,
               [hiddenGenres |-> OrElse(Field(loaded, "hiddenGenres"), SENSITIVE_GENRES),
                notificationsLayout |->
                    IF Field(loaded, "notificationsLayout") = Absent
                    THEN <<"updates", "reminders", "logs">>
                    ELSE SelectSeq(loaded.notificationsLayout, LAMBDA k : k # "news"),
                storageQuota |->
                    IF OrElse(Field(loaded, "storageQuota"), 0) = 0
                    THEN DEFAULT_STORAGE_QUOTA ELSE loaded.storageQuota]
               @@ (IF Field(loaded, "pinnedNotificationTab") = Present("news")
                   THEN [pinnedNotificationTab |-> "updates"]
                   ELSE <<>>))

\* loadTrackedMedia: media.map(item => item.synopsis ? rest : item)
cleanedMedia(media) == [i \in 1..Len(media) |-> WithoutSynopsis(media[i])]

\* window.location.reload(): every task of the page is gone; the provider
\* mounts again and loads profile, list data, tracked media (saving it again
\* when a synopsis was stripped from it) and sync config.
Reload ==
    /\ reloadPending # "none"
    /\ reloadPending' = "none"
    /\ listData' = IF Get(IDB_PROFILE_KEY) = Absent THEN initialListData
                   ELSE loadListData(Get(IDB_LIST_DATA_KEY))
    /\ expected' = listData'
    /\ LET media == OrElse(Get(IDB_TRACKED_MEDIA_KEY), <<>>) IN
          IF Get(IDB_PROFILE_KEY) = Absent
          THEN trackedMedia' = <<>> /\ UNCHANGED txQueue
          ELSE /\ trackedMedia' = cleanedMedia(media)
               /\ txQueue' = IF \E i \in 1..Len(media) : media[i].synopsis
                             THEN set(txQueue, IDB_TRACKED_MEDIA_KEY, cleanedMedia(media),
                                      "load", 0)
                             ELSE txQueue
    /\ sharedDataConfig' =
          IF Get(IDB_PROFILE_KEY) # Absent
             /\ OrElse(Get(IDB_SHARED_DATA_KEY), nullConfig).url # Absent
          THEN Get(IDB_SHARED_DATA_KEY)[1] ELSE nullConfig
    /\ isSyncing' = FALSE
    /\ syncs' = {}
    /\ updateQueue' = <<>>
    /\ persists' = <<>>
    /\ timers' = {}
    /\ isCheckingForUpdates' = FALSE
    /\ checkingUpdates' = <<>>
    /\ runs' = {}
    /\ UNCHANGED <<store, hasEstimate, calls, nextId>>
    /\ UNCHANGED remVars
    /\ authMode' = IF Get(IDB_PROFILE_KEY) = Absent THEN "none" ELSE "local"
    /\ loadTask' = "loaded"
    /\ reconciler' = [armed |-> (Get(IDB_PROFILE_KEY) # Absent), fired |-> 0]
    /\ cacheReady' = FALSE
    /\ imageTask' = noImage
    /\ UNCHANGED <<exportTask, dueResult, signOutTask, hidden>>

connectedConfig == [url |-> Present("url"), lastSync |-> Present(0), lastSize |-> Present(1),
                    lastEtag |-> Present("etag-0")]

\* Mounted in local mode, connected to a shared document or not.
InitSync ==
    /\ hasEstimate = FALSE
    /\ listData = seededListData
    /\ trackedMedia = <<WithoutSynopsis(Media(1))>>
    /\ expected = listData
    /\ \/ store = [emptyStore EXCEPT
                     ![IDB_PROFILE_KEY] = Present(LocalProfile),
                     ![IDB_LIST_DATA_KEY] = Present(seededListData),
                     ![IDB_TRACKED_MEDIA_KEY] = Present(<<WithoutSynopsis(Media(1))>>)]
       \/ store = [emptyStore EXCEPT
                     ![IDB_PROFILE_KEY] = Present(LocalProfile),
                     ![IDB_LIST_DATA_KEY] = Present(seededListData),
                     ![IDB_TRACKED_MEDIA_KEY] = Present(<<WithoutSynopsis(Media(1))>>),
                     ![IDB_SHARED_DATA_KEY] = Present(connectedConfig)]
    /\ InitRest

NextSync ==
    \/ \E m \in BOOLEAN : syncSharedData(m)
    \/ \E s \in syncs : SyncGuard(s)
    \/ \E s \in syncs, response \in Responses : SyncFetched(s, response)
    \/ \E s \in syncs : SyncWrite(s)
    \/ \E s \in syncs : SyncFinish(s)
    \/ connectToSharedData
    \/ \E s \in syncs : ConnectSync(s)
    \/ disconnectFromSharedData
    \/ importData
    \/ \E s \in syncs, content \in FileContents : ImportLoaded(s, content)
    \/ Reload
    \/ \E id \in Ids : togglePlanToWatch(id)
    \/ Render
    \/ StoreCommit
    \/ \E t \in timers : TimerGetTracked(t)
    \/ \E t \in timers : TimerGetListData(t)
    \/ \E t \in timers : TimerSetTracked(t)

SpecSync == InitSync /\ [][NextSync]_vars

\* The sync client when the fetch and the store operations return: every
\* continuation of a sync that can resume does resume.
SpecSyncFair ==
    /\ SpecSync
    /\ WF_vars(\E s \in syncs : SyncGuard(s))
    /\ WF_vars(\E s \in syncs, response \in Responses : SyncFetched(s, response))
    /\ WF_vars(\E s \in syncs : SyncWrite(s))
    /\ WF_vars(\E s \in syncs : SyncFinish(s))
    /\ WF_vars(\E s \in syncs : ConnectSync(s))
    /\ WF_vars(StoreCommit)

\* ------------------------------------------------------- export and import
\* exportData: `profile: await get(IDB_PROFILE_KEY)` is issued at the call.
exportData ==
    /\ exportTask.pc = "idle"
    /\ exportTask' =
          [pc |-> "lists",
           allData |-> [exportTask.allData EXCEPT !.profile = Get(IDB_PROFILE_KEY)],
           before |-> [profile |-> Get(IDB_PROFILE_KEY), lists |-> Get(IDB_LIST_DATA_KEY)]]
    /\ UNCHANGED mutVars
    /\ UNCHANGED remVars
    /\ UNCHANGED syncVars
    /\ UNCHANGED <<dueResult, recVars>>
    /\ UNCHANGED outVars

\* The next `await get(...)` of exportData; after the last one the file is
\* written (JSON.stringify, link.click()).
ExportGet ==
    /\ exportTask.pc \in {"lists", "layout", "tracked"}
    /\ exportTask' =
          CASE exportTask.pc = "lists" ->
                 [exportTask EXCEPT !.pc = "layout",
                                    !.allData.lists = Get(IDB_LIST_DATA_KEY)]
            [] exportTask.pc = "layout" ->
                 [exportTask EXCEPT !.pc = "tracked",
                                    !.allData.layout = Get(IDB_LAYOUT_CONFIG_KEY)]
            [] exportTask.pc = "tracked" ->
                 [exportTask EXCEPT !.pc = "done",
                                    !.allData.tracked = Get(IDB_TRACKED_MEDIA_KEY)]
    /\ UNCHANGED mutVars
    /\ UNCHANGED remVars
    /\ UNCHANGED syncVars
    /\ UNCHANGED <<dueResult, recVars>>
    /\ UNCHANGED outVars

\* importData(file) with the file exportData downloaded.
importExported ==
    /\ calls < MaxCalls
    /\ exportTask.pc = "done"
    /\ syncs' = Unfinished(syncs) \cup {SyncTask("restore", TRUE, FALSE, "reading", nullConfig)}
    /\ calls' = calls + 1
    /\ UNCHANGED <<listData, updateQueue, expected, persists, txQueue, store, hasEstimate,
                   trackedMedia, timers, nextId>>
    /\ UNCHANGED remVars
    /\ UNCHANGED <<sharedDataConfig, isSyncing, reloadPending>>
    /\ UNCHANGED auxVars

\* Signed in locally, with or without persisted list data.
InitExp ==
    /\ hasEstimate = FALSE
    /\ \/ /\ store = [emptyStore EXCEPT ![IDB_PROFILE_KEY] = Present(LocalProfile)]
          /\ listData = initialListData
          /\ trackedMedia = <<>>
       \/ /\ store = [emptyStore EXCEPT
                        ![IDB_PROFILE_KEY] = Present(LocalProfile),
                        ![IDB_LIST_DATA_KEY] = Present(seededListData),
                        ![IDB_TRACKED_MEDIA_KEY] = Present(<<WithoutSynopsis(Media(1))>>)]
          /\ listData = seededListData
          /\ trackedMedia = <<WithoutSynopsis(Media(1))>>
    /\ expected = listData
    /\ InitRest

NextExp ==
    \/ exportData
    \/ ExportGet
    \/ importExported
    \/ \E s \in syncs, content \in FileContents : ImportLoaded(s, content)
    \/ \E s \in syncs : SyncWrite(s)
    \/ \E s \in syncs : SyncFinish(s)
    \/ Reload
    \/ \E id \in Ids : togglePlanToWatch(id)
    \/ \E id \in Ids : toggleCurrentlyReading(id)
    \/ Render
    \/ StoreCommit
    \/ \E t \in timers : TimerGetTracked(t)
    \/ \E t \in timers : TimerGetListData(t)
    \/ \E t \in timers : TimerSetTracked(t)

SpecExp == InitExp /\ [][NextExp]_vars

\* ---------------------------------------------------------------- sign-out
\* clear(): one readwrite transaction that empties the object store.
clear(q, owner) == Append(q, Tx(IDB_PROFILE_KEY, Absent, "clear", owner))

\* signOut() up to `await clear()`: setAuthMode('none') and
\* setLocalProfile(null) are rendered at the end of the event; the effects on
\* authMode run their cleanups (the scheduler's and the reconciler's timers
\* are cleared) and run again: setListData(initialListData),
\* setTrackedMedia([]).
signOut ==
    /\ authMode = "local" /\ signOutTask.pc = "idle"
    /\ updateQueue = <<>> /\ checkingUpdates = <<>>
    /\ authMode' = "none"
    /\ listData' = initialListData
    /\ expected' = initialListData
    /\ trackedMedia' = <<>>
    /\ txQueue' = clear(txQueue, MaxCalls + 1)
    /\ signOutTask' = [pc |-> "clearing", calls |-> calls]
    /\ UNCHANGED <<updateQueue, persists, store, hasEstimate, timers, calls, nextId>>
    /\ UNCHANGED remVars
    /\ UNCHANGED syncVars
    /\ reconciler' = [reconciler EXCEPT !.armed = FALSE]
    /\ UNCHANGED <<exportTask, dueResult, recVars, hidden, loadTask, imgVars>>

\* After `await clear()`: the toast and window.location.href = '/'.
SignOutCleared ==
    /\ signOutTask.pc = "clearing"
    /\ Committed(MaxCalls + 1)
    /\ signOutTask' = [signOutTask EXCEPT !.pc = "done"]
    /\ reloadPending' = "signOut"
    /\ UNCHANGED mutVars
    /\ UNCHANGED remVars
    /\ UNCHANGED <<sharedDataConfig, isSyncing, syncs>>
    /\ UNCHANGED <<exportTask, dueResult, recVars, authMode, hidden, loadTask, reconciler, imgVars>>

\* A tick of the scheduler's 10 s interval, armed while authMode is 'local'.
schedulerInterval == authMode = "local" /\ checkRemindersAndCreateNotifications

\* The reconciler's initial timeout or a tick of its interval, armed while
\* authMode is 'local'.
reconcilerTimers == authMode = "local" /\ runChecks

\* Mounted in local mode, with or without persisted list data.
InitOut ==
    /\ hasEstimate \in BOOLEAN
    /\ \/ /\ store = [emptyStore EXCEPT ![IDB_PROFILE_KEY] = Present(LocalProfile)]
          /\ listData = initialListData
          /\ trackedMedia = <<>>
       \/ /\ store = [emptyStore EXCEPT
                        ![IDB_PROFILE_KEY] = Present(LocalProfile),
                        ![IDB_LIST_DATA_KEY] = Present(seededListData),
                        ![IDB_TRACKED_MEDIA_KEY] = Present(<<WithoutSynopsis(Media(1))>>)]
          /\ listData = seededListData
          /\ trackedMedia = <<WithoutSynopsis(Media(1))>>
    /\ expected = listData
    /\ InitRest

NextOut ==
    \/ signOut
    \/ SignOutCleared
    \/ Reload
    \/ \E id \in Ids : togglePlanToWatch(id)
    \/ \E id \in Ids : toggleCurrentlyReading(id)
    \/ Render
    \/ \E i \in 1..Len(persists), usage \in Usages : checkStorageAndNotify(i, usage)
    \/ StoreCommit
    \/ \E t \in timers : TimerGetTracked(t)
    \/ \E t \in timers : TimerGetListData(t)
    \/ \E t \in timers : TimerSetTracked(t)

SpecOut == InitOut /\ [][NextOut]_vars

\* What the catalog answers in the background engine: every id asked for,
\* with the count the cache has or one more.
BackgroundAnswers ==
    {latest \in CatalogAnswers : \A id \in Ids : latest[id] \in {Present(1), Present(2)}}

\* Mounted in local mode: nothing tracked, or media 1 and 2 tracked and being
\* watched / read.
InitBackground ==
    /\ hasEstimate = FALSE
    /\ \/ listData = initialListData /\ trackedMedia = <<>>
       \/ listData = watchingListData /\ trackedMedia = <<Cached(1, 1), Cached(2, 1)>>
    /\ store = [emptyStore EXCEPT
                  ![IDB_PROFILE_KEY] = Present(LocalProfile),
                  ![IDB_LIST_DATA_KEY] = Present(listData),
                  ![IDB_TRACKED_MEDIA_KEY] = Present(trackedMedia)]
    /\ expected = listData
    /\ InitRest

NextBackground ==
    \/ signOut
    \/ SignOutCleared
    \/ Reload
    \/ \E id \in Ids : togglePlanToWatch(id)
    \/ schedulerInterval
    \/ reconcilerTimers
    \/ \E s \in runs : RunReturned(s)
    \/ \E s \in runs, latest \in BackgroundAnswers : RunFetched(s, latest)
    \/ \E s \in runs : RunSaved(s)
    \/ Render
    \/ StoreCommit
    \/ \E t \in timers : TimerGetTracked(t)
    \/ \E t \in timers : TimerGetListData(t)
    \/ \E t \in timers : TimerSetTracked(t)

SpecBackground == InitBackground /\ [][NextBackground]_vars

\* The reconciler engine: the two timers of the reconciler effect with the
\* arming of the initial timeout recorded, the runs they start, and toggles of
\* the watching list with their membership timers.
NextReconciler ==
    \/ initialTimeout
    \/ updateInterval
    \/ \E id \in Ids : toggleCurrentlyWatching(id)
    \/ \E s \in runs : RunReturned(s)
    \/ \E s \in runs, latest \in BackgroundAnswers : RunFetched(s, latest)
    \/ \E s \in runs : RunSaved(s)
    \/ Render
    \/ StoreCommit
    \/ \E t \in timers : TimerGetTracked(t)
    \/ \E t \in timers : TimerSetTracked(t)

SpecReconciler == InitBackground /\ [][NextReconciler]_vars

\* The user reloads the page.
userReload ==
    /\ calls < MaxCalls /\ reloadPending = "none"
    /\ calls' = calls + 1
    /\ reloadPending' = "user"
    /\ UNCHANGED <<listData, updateQueue, expected, persists, txQueue, store, hasEstimate,
                   trackedMedia, timers, nextId>>
    /\ UNCHANGED remVars
    /\ UNCHANGED <<sharedDataConfig, isSyncing, syncs>>
    /\ UNCHANGED auxVars

\* Mounted in local mode: nothing tracked, media 1 and 2 tracked and being
\* watched / read, or media 1 alone tracked and being watched.
InitTracked ==
    /\ hasEstimate = FALSE
    /\ \/ listData = initialListData /\ trackedMedia = <<>>
       \/ listData = watchingListData /\ trackedMedia = <<Cached(1, 1), Cached(2, 1)>>
       \/ /\ listData = [initialListData EXCEPT !.currentlyWatching = <<1>>]
          /\ trackedMedia = <<Cached(1, 1)>>
    /\ store = [emptyStore EXCEPT
                  ![IDB_PROFILE_KEY] = Present(LocalProfile),
                  ![IDB_LIST_DATA_KEY] = Present(listData),
                  ![IDB_TRACKED_MEDIA_KEY] = Present(trackedMedia)]
    /\ expected = listData
    /\ InitRest

\* The tracked-media engine: list toggles with their membership timers,
\* reconciliation runs, and page loads.
NextTracked ==
    \/ \E id \in Ids : togglePlanToWatch(id)
    \/ \E id \in Ids : toggleCurrentlyWatching(id)
    \/ runChecks
    \/ \E s \in runs : RunReturned(s)
    \/ \E s \in runs, latest \in CatalogAnswers : RunFetched(s, latest)
    \/ \E s \in runs : RunSaved(s)
    \/ userReload
    \/ Reload
    \/ Render
    \/ StoreCommit
    \/ \E t \in timers : TimerGetTracked(t)
    \/ \E t \in timers : TimerGetListData(t)
    \/ \E t \in timers : TimerSetTracked(t)

SpecTracked == InitTracked /\ [][NextTracked]_vars

\* ------------------------------------------------------------ hidden genres
\* genres_list: the catalog's genre and tag names.
genres_list ==
    {[name |-> "Hentai", type |-> "genre"],
     [name |-> "Ecchi", type |-> "genre"],
     [name |-> "Gore", type |-> "tag"]}

\* new Set(genres_list.map(g => g.name))
allGenreNames == {g.name : g \in genres_list}

\* genres_list.find(g => g.name === name)?.type
TypeOf(name) == (CHOOSE g \in genres_list : g.name = name).type

\* The lists setHiddenGenres is called with: names of the catalog, and a name
\* the catalog does not (or no longer does) have.
HiddenChoices == SUBSET (allGenreNames \cup {"Retired"})

setHiddenGenres(genres) == PlainCall([op |-> "setHiddenGenres", genres |-> genres])
setSensitiveContentUnlocked(unlocked) ==
    PlainCall([op |-> "setSensitiveContentUnlocked", unlocked |-> unlocked])
setStorageQuota(bytes) == PlainCall([op |-> "setStorageQuota", bytes |-> bytes])

\* Variant that takes the user's list whatever the flag says.
finalHiddenUserOnly(stored) ==
    IF stored = Absent THEN SENSITIVE_GENRES ELSE stored[1].hiddenGenres

\* finalHidden of getHiddenGenres: SENSITIVE_GENRES without data, else the
\* user's list, united with SENSITIVE_GENRES unless sensitiveContentUnlocked.
finalHidden(stored) ==
    IF stored = Absent THEN SENSITIVE_GENRES
    ELSE IF stored[1].sensitiveContentUnlocked THEN stored[1].hiddenGenres
    ELSE SENSITIVE_GENRES \cup stored[1].hiddenGenres

\* getHiddenGenres(listData): without an argument the list data is read from
\* the store.  The result keeps the names the catalog has, split by type.
getHiddenGenres(listDataArg) ==
    LET datum == IF listDataArg = Absent THEN Get(IDB_LIST_DATA_KEY) ELSE listDataArg
        validHidden == {g \in finalHidden(datum) : g \in allGenreNames}
    IN [data |-> datum,
        genres |-> {name \in validHidden : TypeOf(name) = "genre"},
        tags |-> {name \in validHidden : TypeOf(name) = "tag"}]

\* A catalog request computes the effective hidden set, from the list data
\* its caller passes or from the store.
HiddenGenresRead(listDataArg) ==
    /\ updateQueue = <<>>
    /\ hidden' = Present(getHiddenGenres(listDataArg))
    /\ UNCHANGED mutVars
    /\ UNCHANGED remVars
    /\ UNCHANGED syncVars
    /\ UNCHANGED <<exportTask, dueResult, recVars, authMode, signOutTask, loadTask, reconciler, imgVars>>

InitHidden ==
    /\ hasEstimate = FALSE
    /\ \/ /\ store = [emptyStore EXCEPT ![IDB_PROFILE_KEY] = Present(LocalProfile)]
          /\ listData = initialListData
       \/ /\ store = [emptyStore EXCEPT
                        ![IDB_PROFILE_KEY] = Present(LocalProfile),
                        ![IDB_LIST_DATA_KEY] = Present(seededListData)]
          /\ listData = seededListData
    /\ trackedMedia = <<>>
    /\ expected = listData
    /\ InitRest

NextHidden ==
    \/ \E genres \in HiddenChoices : setHiddenGenres(genres)
    \/ \E unlocked \in BOOLEAN : setSensitiveContentUnlocked(unlocked)
    \/ \E listDataArg \in {Absent, Present(listData)} : HiddenGenresRead(listDataArg)
    \/ Render
    \/ StoreCommit

SpecHidden == InitHidden /\ [][NextHidden]_vars

\* ------------------------------------------------------------ quota engine
\* The quotas setStorageQuota is called with: below and above every usage
\* the estimate reports.
QuotaChoices == {1, DEFAULT_STORAGE_QUOTA + 2}

\* Mutator calls under the quota guard, with and without
\* navigator.storage.estimate.
NextQuota ==
    \/ \E bytes \in QuotaChoices : setStorageQuota(bytes)
    \/ \E id \in Ids, e \in Episodes : toggleEpisodeWatched(id, e)
    \/ markAllInteractionsAsRead
    \/ Render
    \/ \E i \in 1..Len(persists), usage \in Usages : checkStorageAndNotify(i, usage)
    \/ StoreCommit

SpecQuota == Init /\ [][NextQuota]_vars

\* -------------------------------------------------------------------- mount
\* A stored record that lacks some keys (written by an older version).
Without(r, keys) == [k \in DOMAIN r \ keys |-> r[k]]

\* Layouts and pinned tabs a stored list-data value can hold.
StoredLayouts ==
    {<<"updates", "reminders", "logs">>, <<"news", "updates", "reminders", "logs">>,
     <<"updates", "news", "news">>, <<"news">>, <<>>}
StoredTabs == {"updates", "news", "logs"}

\* What the list-data key can hold when the provider mounts.
StoredValues ==
    {Absent} \cup
    {Present(Without([initialListData EXCEPT !.notificationsLayout = layout,
                                             !.pinnedNotificationTab = tab,
                                             !.storageQuota = quota],
                     missing)) :
        layout \in StoredLayouts, tab \in StoredTabs, quota \in {0, 1},
        missing \in SUBSET {"hiddenGenres", "notificationsLayout", "pinnedNotificationTab",
                            "storageQuota"}}

\* The page is opened again: useState(initialListData); the effect on authMode
\* runs loadListData.  Not in local mode it is setListData(initialListData).
Mount ==
    /\ loadTask # "reading"
    /\ updateQueue = <<>> /\ txQueue = <<>>
    /\ listData' = initialListData
    /\ expected' = initialListData
    /\ loadTask' = IF authMode = "local" THEN "reading" ELSE "loaded"
    /\ UNCHANGED <<updateQueue, persists, txQueue, store, hasEstimate, trackedMedia, timers,
                   calls, nextId>>
    /\ UNCHANGED remVars
    /\ UNCHANGED syncVars
    /\ UNCHANGED <<exportTask, dueResult, recVars, authMode, signOutTask, hidden, reconciler, imgVars>>

\* `await get(IDB_LIST_DATA_KEY)` settles: setListData(loaded), or the catch
\* with setListData(initialListData) when the read fails.
LoadSettled(ok) ==
    /\ loadTask = "reading"
    /\ listData' = IF ok THEN loadListData(Get(IDB_LIST_DATA_KEY)) ELSE initialListData
    /\ expected' = listData'
    /\ loadTask' = IF ok THEN "loaded" ELSE "caught"
    /\ UNCHANGED <<updateQueue, persists, txQueue, store, hasEstimate, trackedMedia, timers,
                   calls, nextId>>
    /\ UNCHANGED remVars
    /\ UNCHANGED syncVars
    /\ UNCHANGED <<exportTask, dueResult, recVars, authMode, signOutTask, hidden, reconciler, imgVars>>

\* Mounting in local mode over any stored list data: loadListData is waiting
\* for its read.
InitLoad ==
    /\ hasEstimate = FALSE
    /\ \E stored \in StoredValues :
          store = [emptyStore EXCEPT ![IDB_PROFILE_KEY] = Present(LocalProfile),
                                     ![IDB_LIST_DATA_KEY] = stored]
    /\ listData = initialListData
    /\ trackedMedia = <<>>
    /\ expected = listData
    /\ InitTasks
    /\ loadTask = "reading"

NextLoad ==
    \/ Mount
    \/ \E ok \in BOOLEAN : LoadSettled(ok)

SpecLoad == InitLoad /\ [][NextLoad]_vars

\* -------------------------------------------------------------- image cache
\* 24 hours.
CACHE_EXPIRATION_MS == TicksPerDay

MaxImageNow == 2 * TicksPerDay

\* The owner of getImage's transaction.
ImageOwner == MaxCalls + 2

\* Variant of the expiry test that takes every entry.
isFreshAlways(item, t) == TRUE

\* now - cachedItem.timestamp < CACHE_EXPIRATION_MS
isFresh(item, t) == t - item.timestamp < CACHE_EXPIRATION_MS

\* What the image cache leaves alone.
ImageFrame ==
    /\ UNCHANGED <<listData, updateQueue, expected, persists, store, hasEstimate,
                   trackedMedia, timers, nextId>>
    /\ UNCHANGED <<passRun, created>>
    /\ UNCHANGED syncVars
    /\ UNCHANGED <<exportTask, dueResult, recVars>>
    /\ UNCHANGED <<authMode, signOutTask, hidden, loadTask, reconciler>>

\* cleanupExpiredCache, at mount and on its interval: an entry older than the
\* expiration is deleted; after the mount's run, setCacheReady(true).
cleanupExpiredCache ==
    /\ LET item == Get(cacheKey) IN
          txQueue' = IF item # Absent /\ now - item[1].timestamp > CACHE_EXPIRATION_MS
                     THEN del(txQueue, cacheKey, 0) ELSE txQueue
    /\ cacheReady' = TRUE
    /\ UNCHANGED <<imageTask, calls, now>>
    /\ ImageFrame

\* getImage(url) up to its first return or to the fetch: null without a ready
\* cache or a url; the cached data URL of a fresh entry; the url when the read
\* fails.
getImage(url, readOk) ==
    /\ calls < MaxCalls /\ imageTask.pc \in {"idle", "done"}
    /\ calls' = calls + 1
    /\ LET cachedItem == Get(cacheKey)
           t == [noImage EXCEPT !.url = url, !.ready = cacheReady, !.entry = cachedItem,
                                !.now = now]
       IN imageTask' =
             IF ~cacheReady \/ url = "" THEN [t EXCEPT !.pc = "done", !.result = Absent]
             ELSE IF ~readOk THEN [t EXCEPT !.pc = "done", !.result = Present(url)]
             ELSE IF cachedItem # Absent /\ isFresh(cachedItem[1], now)
             THEN [t EXCEPT !.pc = "done", !.result = Present(cachedItem[1].dataUrl)]
             ELSE [t EXCEPT !.pc = "fetching"]
    /\ UNCHANGED <<cacheReady, txQueue, now>>
    /\ ImageFrame

\* imageToDataUrl(url) settles: newItem = { dataUrl, timestamp: now } and
\* set(cacheKey, newItem), or the catch block returns the url.
ImageFetched(ok) ==
    /\ imageTask.pc = "fetching"
    /\ IF ok
       THEN LET newItem == [dataUrl |-> "data:fetched", timestamp |-> imageTask.now] IN
            /\ txQueue' = set(txQueue, cacheKey, newItem, "image", ImageOwner)
            /\ imageTask' = [imageTask EXCEPT !.pc = "storing", !.dataUrl = "data:fetched",
                                              !.newItem = Present(newItem)]
       ELSE /\ imageTask' = [imageTask EXCEPT !.pc = "done", !.result = Present(imageTask.url)]
            /\ UNCHANGED txQueue
    /\ UNCHANGED <<cacheReady, calls, now>>
    /\ ImageFrame

\* After `await set(cacheKey, newItem)`: return dataUrl.
ImageStored ==
    /\ imageTask.pc = "storing" /\ Committed(ImageOwner)
    /\ imageTask' = [imageTask EXCEPT !.pc = "done", !.result = Present(imageTask.dataUrl)]
    /\ UNCHANGED <<cacheReady, txQueue, calls, now>>
    /\ ImageFrame

\* The transaction of set(cacheKey, newItem) aborts: the catch block returns
\* the url.
ImageStoreFailed ==
    /\ imageTask.pc = "storing" /\ ~Committed(ImageOwner)
    /\ txQueue' = SelectSeq(txQueue, LAMBDA tx : tx.owner # ImageOwner)
    /\ imageTask' = [imageTask EXCEPT !.pc = "done", !.newItem = Absent,
                                      !.result = Present(imageTask.url)]
    /\ UNCHANGED <<cacheReady, calls, now>>
    /\ ImageFrame

\* Time passes.
ImageTick ==
    /\ now < MaxImageNow
    /\ now' = now + 1
    /\ UNCHANGED <<cacheReady, imageTask, txQueue, calls>>
    /\ ImageFrame

\* Mounted, the first cleanup not yet run; the image is not cached or was
\* cached at instant 0.
InitImage ==
    /\ hasEstimate = FALSE
    /\ listData = initialListData
    /\ trackedMedia = <<>>
    /\ \E item \in {Absent, Present([dataUrl |-> "data:cached", timestamp |-> 0])} :
          store = [emptyStore EXCEPT ![IDB_PROFILE_KEY] = Present(LocalProfile),
                                     ![cacheKey] = item]
    /\ expected = listData
    /\ InitRest

NextImage ==
    \/ cleanupExpiredCache
    \/ \E url \in ImageUrls, readOk \in BOOLEAN : getImage(url, readOk)
    \/ \E ok \in BOOLEAN : ImageFetched(ok)
    \/ ImageStored
    \/ ImageStoreFailed
    \/ ImageTick
    \/ StoreCommit

SpecImage == InitImage /\ [][NextImage]_vars

\* ------------------------------------------------------------------ claims
Quiescent == updateQueue = <<>> /\ persists = <<>> /\ txQueue = <<>> /\ timers = {}

\* C1: once the queued updaters have run, the in-memory ListData is the result
\* of applying the transformers one after another in call order, whatever
\* persists and timers are pending: no call's update is lost.
C1_AppliedInCallOrder == updateQueue = <<>> => listData = expected

\* Two calls on different lists were batched into one render and both persists
\* are still waiting for the storage estimate, with a timer pending.
C1_Witness ==
    /\ calls = 2 /\ updateQueue = <<>> /\ Len(persists) = 2 /\ timers # {}
    /\ persists[1] # persists[2]
    /\ listData.planToRead # <<>> /\ listData.currentlyWatching # <<>>

\* The stored list data without its notifications.
Primary(opt) == IF opt = Absent THEN Absent ELSE Present([opt[1] EXCEPT !.notifications = <<>>])

StorageCount(opt) ==
    IF opt = Absent THEN 0
    ELSE Cardinality({i \in 1..Len(opt[1].notifications) :
                        opt[1].notifications[i].type = "storage"})

\* The write the quota guard issued on usage > storageQuota completes.
VetoLands ==
    /\ txQueue # <<>> /\ Head(txQueue).kind = "veto"
    /\ store[IDB_LIST_DATA_KEY] # Absent
    /\ txQueue' = Tail(txQueue)
    /\ store' = CommitTx(store, Head(txQueue))

\* C2: when the estimate reports usage > storageQuota, the persist leaves the
\* stored lists, progress maps, reminders and preferences as they were and
\* appends exactly one storage notification to the stored notifications.
C2_VetoKeepsPrimaryPayload ==
    [][VetoLands =>
        /\ Primary(store'[IDB_LIST_DATA_KEY]) = Primary(store[IDB_LIST_DATA_KEY])
        /\ StorageCount(store'[IDB_LIST_DATA_KEY]) = StorageCount(store[IDB_LIST_DATA_KEY]) + 1]_vars

\* C3: once every 100 ms timer and every pending persist has completed, an id
\* is in the persisted tracked-media cache iff it is in one of the four lists.
C3_TrackedIffListed ==
    Quiescent =>
        \A id \in Ids :
            HasId(OrElse(store[IDB_TRACKED_MEDIA_KEY], <<>>), id)
                <=> isInAnyList(OrElse(store[IDB_LIST_DATA_KEY], initialListData), id)

OneShot(r) == r.repeatIntervalDays = 0 /\ r.repeatOnDays = {}

NotificationsFor(rid) ==
    Cardinality({i \in 1..Len(listData.notifications) :
                    /\ listData.notifications[i].type = "reminder"
                    /\ listData.notifications[i].reminderId = rid})

\* The one-shot reminders with startDateTime in the past that had no
\* notification when the current run of consecutive scheduler passes began.
PastOneShots ==
    {r \in {listData.reminders[i] : i \in 1..Len(listData.reminders)} :
        OneShot(r) /\ isPast(r.startDateTime) /\ r.id \notin passRun.had}

AfterPasses == passRun.n >= 1 /\ updateQueue = <<>>

\* C4 as claimed: N >= 1 consecutive scheduler passes create exactly one
\* notification for a one-shot reminder whose startDateTime is in the past.
C4_ExactlyOnePerOneShot ==
    AfterPasses => \A r \in PastOneShots : NotificationsFor(r.id) = 1

\* C4 amended: exactly one, unless autoStopOnCompletion suppresses the
\* reminder (its tracked media is completed), and then none.
C4_ExactlyOneUnlessCompleted ==
    AfterPasses =>
        \A r \in PastOneShots :
            NotificationsFor(r.id) = IF isMediaCompleted(r) THEN 0 ELSE 1

\* Three consecutive passes have run over a past one-shot reminder that is not
\* suppressed, and it has its notification.
C4_Witness ==
    /\ passRun.n = 3 /\ updateQueue = <<>>
    /\ \E r \in PastOneShots : ~isMediaCompleted(r) /\ NotificationsFor(r.id) = 1

\* C5: over its whole lifetime a reminder gets at most one notification from
\* the scheduler, whatever other mutator operations interleave.
C5_AtMostOncePerReminder == \A rid \in DOMAIN created : created[rid] <= 1

\* The syncs that have issued their fetch and have not finished.
InFlight == {s \in syncs : s.kind = "sync" /\ s.pc \in {"fetching", "writing"}}

\* C6: at most one sync is in flight: a call that begins while an earlier one
\* has not finished issues no fetch and writes nothing.
C6_AtMostOneSyncInFlight == Cardinality(InFlight) <= 1

NoImport == \A s \in syncs : s.kind # "import"

\* C7: what the reload after a successful sync reads from the store is the
\* fetched snapshot's profile and lists, whatever mutator call ran in between.
C7_ReloadReadsSnapshot ==
    [][(reloadPending = "sync" /\ reloadPending' = "none" /\ NoImport) =>
        /\ Get(IDB_PROFILE_KEY) = Present(RemoteSnapshot.profile)
        /\ Get(IDB_LIST_DATA_KEY) = Present(RemoteSnapshot.lists)]_vars

\* C8: whenever a sync has failed and neither connect nor sync has been called
\* since, the sync config is all null in memory and in the store.
C8_FailedSyncLeavesConfigNull ==
    (\E s \in syncs : s.kind = "sync" /\ s.pc = "failed") =>
        /\ sharedDataConfig = nullConfig
        /\ Get(IDB_SHARED_DATA_KEY) = Present(nullConfig)

UserKeys == {IDB_PROFILE_KEY, IDB_LIST_DATA_KEY, IDB_LAYOUT_CONFIG_KEY, IDB_TRACKED_MEDIA_KEY}

\* The transactions in flight on the user-data keys.
UserTx(q) == SelectSeq(q, LAMBDA tx : tx.kind = "clear" \/ tx.key \in UserKeys)

\* The fetch of a sync or the read of an import file settles with `response`.
Settles(responses) ==
    \E s \in syncs : \E r \in syncs' :
        /\ s.sid = r.sid /\ s.pc \in {"fetching", "reading"}
        /\ s.response = "none" /\ r.response \in responses

\* C9: a sync response or import file without profile or without lists writes
\* none of the profile, list-data, layout and tracked-media keys and schedules
\* no reload.
C9_MalformedWritesNothing ==
    [][Settles({"noProfile", "noLists"}) =>
        /\ store' = store
        /\ UserTx(txQueue') = UserTx(txQueue)
        /\ reloadPending' = reloadPending]_vars

\* A sync and an import have both ended on a document without lists, with
\* user data in the store.
C9_Witness ==
    /\ \E s \in syncs : s.kind = "sync" /\ s.pc = "failed" /\ s.response = "noLists"
    /\ \E s \in syncs : s.kind = "import" /\ s.pc = "failed" /\ s.response = "noLists"
    /\ store[IDB_LIST_DATA_KEY] # Absent

\* C10: a 304 answer changes neither the stored profile, lists, layout and
\* tracked cache nor the sync config, and schedules no reload, for a manual
\* and for an automatic sync.
C10_NotModifiedChangesNothing ==
    [][Settles({"304"}) =>
        /\ store' = store /\ txQueue' = txQueue
        /\ sharedDataConfig' = sharedDataConfig
        /\ reloadPending' = reloadPending]_vars

\* An automatic sync that sent If-None-Match got 304 and is done, connected.
C10_Witness ==
    \E s \in syncs :
        /\ s.response = "304" /\ s.pc = "done" /\ ~s.manual /\ s.ifNoneMatch
        /\ sharedDataConfig = connectedConfig

\* An import of the exported file settles at this step: it is rejected, or it
\* issues its write of the lists (the profile is written before).
RestoreSettles ==
    \E s \in syncs : \E r \in syncs' :
        /\ s.sid = r.sid /\ s.kind = "restore"
        /\ \/ s.pc = "reading" /\ r.pc = "failed"
           \/ s.pc = "writing" /\ s.written = 1 /\ r.written = 2

\* C11: importing the file that exportData produced leaves the stored profile
\* and lists as they were when exportData was called, from every local state,
\* a profile without persisted list data included.
C11_ExportImportRestores ==
    [][RestoreSettles =>
        /\ View(store', txQueue')[IDB_PROFILE_KEY] = exportTask.before.profile
        /\ View(store', txQueue')[IDB_LIST_DATA_KEY] = exportTask.before.lists]_vars

Occurrences(list, x) == Cardinality({i \in 1..Len(list) : list[i] = x})

ListToggleOps == {"toggle", "toggleCurrentlyWatching", "toggleCurrentlyReading"}

\* The list a list toggle toggles.
ToggledList(u) ==
    CASE u.op = "toggle" -> u.list
      [] u.op = "toggleCurrentlyWatching" -> "currentlyWatching"
      [] u.op = "toggleCurrentlyReading" -> "currentlyReading"

\* The same list toggle was called twice in a row and this step applies both.
DoubleToggleApplied ==
    /\ Len(updateQueue) = 2 /\ updateQueue[1] = updateQueue[2]
    /\ updateQueue[1].op \in ListToggleOps
    /\ updateQueue' = <<>>

\* C12: applying the same list toggle twice in a row leaves the toggled list
\* with the set of ids it had, the toggled id occurring at most once.
C12_DoubleToggleRestoresSet ==
    [][DoubleToggleApplied =>
        LET u == updateQueue[1] IN
        /\ SetOf(listData'[ToggledList(u)]) = SetOf(listData[ToggledList(u)])
        /\ Occurrences(listData'[ToggledList(u)], u.id) <= 1]_vars

\* togglePlanToWatch(1) was called twice on planToWatch = [1] (both timers are
\* armed): the two persists show the list empty, then holding 1 again.
C12_Witness ==
    /\ calls = 2 /\ updateQueue = <<>> /\ Len(persists) = 2
    /\ Cardinality({t \in timers : t.kind = "membership" /\ t.id = 1 /\ t.pc = "armed"}) = 2
    /\ persists[1].planToWatch = <<>> /\ persists[2].planToWatch = <<1>>
    /\ listData = seededListData

NoDuplicates(list) == \A i, j \in 1..Len(list) : list[i] = list[j] => i = j

\* C13: from lists without duplicates, no sequence of toggles and removals
\* makes an id occur twice in one of the four lists, in memory or in the store.
C13_NoDuplicateIds ==
    \A l \in ListNames :
        /\ NoDuplicates(listData[l])
        /\ NoDuplicates(OrElse(Get(IDB_LIST_DATA_KEY), initialListData)[l])

\* Two toggles have been applied and currentlyWatching holds two ids.
C13_Witness ==
    /\ calls = 2 /\ updateQueue = <<>>
    /\ listData.planToWatch = <<>> /\ Len(listData.currentlyWatching) = 2

Weekly(r) == r.repeatOnDays # {}

\* The occurrence of a weekday in the week (Sunday to Saturday) of instant t,
\* at the reminder's time of day.
OccurrenceInCycle(t, day, r) ==
    (t \div (DaysPerWeek * TicksPerDay)) * DaysPerWeek * TicksPerDay
        + day * TicksPerDay + getHours(r.startDateTime)

\* The first instant after t that falls on the weekday at the reminder's time
\* of day.
NextOccurrence(t, day, r) ==
    CHOOSE x \in (t + 1)..(t + DaysPerWeek * TicksPerDay) :
        /\ getDay(x) = day /\ getHours(x) = getHours(r.startDateTime)
        /\ \A y \in (t + 1)..(x - 1) :
               ~(getDay(y) = day /\ getHours(y) = getHours(r.startDateTime))

Evaluated(r) == listData.reminders = <<r>> /\ dueResult # Absent

\* C14: once this cycle's occurrence of every configured weekday has passed,
\* isReminderDue returns true for a weekly reminder.
C14_DueOnceCyclePassed ==
    \A r \in DueReminders :
        (Evaluated(r) /\ Weekly(r)
            /\ \A day \in r.repeatOnDays : OccurrenceInCycle(now, day, r) < now)
        => dueResult = Present(TRUE)

\* C15: isReminderDue returns false for a weekly reminder whenever the next
\* occurrence of one of its weekdays is still in the future.
C15_NotDueWhilePending ==
    \A r \in DueReminders :
        (Evaluated(r) /\ Weekly(r)
            /\ \E day \in r.repeatOnDays : NextOccurrence(now, day, r) > now)
        => dueResult = Present(FALSE)

\* A Monday-and-Thursday reminder was evaluated on a Wednesday, Thursday's
\* occurrence pending, and was found not due.
C15_Witness ==
    \E r \in DueReminders :
        /\ Evaluated(r) /\ r.repeatOnDays = {1, 4} /\ getDay(now) = 3
        /\ OccurrenceInCycle(now, 4, r) > now
        /\ dueResult = Present(FALSE)

Made(f, rid) == IF rid \in DOMAIN f THEN f[rid] ELSE 0

ReminderSet == {listData.reminders[i] : i \in 1..Len(listData.reminders)}

\* A scheduler pass runs at this step.
PassRuns == passRun'.n = passRun.n + 1

\* C16: a scheduler pass creates a notification for a reminder only if the
\* reminder is due under isReminderDue; none for a weekly reminder with an
\* occurrence pending, even when startDateTime is in the past.
C16_NotifiesOnlyDue ==
    [][PassRuns =>
        \A r \in ReminderSet :
            Made(created', r.id) > Made(created, r.id) => isReminderDue(r)]_vars

MangaType(m) == m.type \in {"MANGA", "NOVEL", "ONE_SHOT"}

\* The user's progress on the reminder's tracked media has reached the
\* media's total episode / chapter / volume count.
ProgressComplete(r) ==
    /\ HasId(trackedMedia, r.mediaId)
    /\ LET m == CHOOSE x \in {trackedMedia[i] : i \in 1..Len(trackedMedia)} :
                    x.id = r.mediaId
           total == IF MangaType(m)
                    THEN (IF m.chapters # 0 THEN m.chapters ELSE m.volumes)
                    ELSE m.episodes
           count == IF MangaType(m) THEN Cardinality(listData.readChapters[m.id])
                    ELSE Cardinality(listData.watchedEpisodes[m.id])
       IN total > 0 /\ count >= total

\* C17: a pass that runs while the progress on the media of a reminder with
\* autoStopOnCompletion has reached the total creates no notification for it,
\* for anime and for manga, novels and one-shots.
C17_NoneOnceCompleted ==
    [][PassRuns =>
        \A r \in ReminderSet :
            (r.autoStopOnCompletion /\ ProgressComplete(r))
                => Made(created', r.id) = Made(created, r.id)]_vars

\* This step runs the queued updaters and the last of them is deleteReminder(id).
DeleteApplied(id) ==
    /\ updateQueue # <<>>
    /\ updateQueue[Len(updateQueue)] = [op |-> "deleteReminder", id |-> id]
    /\ updateQueue' = <<>>

\* The list data that last updater is applied to.
BeforeLast ==
    IF Len(updateQueue) <= 1 THEN listData
    ELSE RunUpdaters(SubSeq(updateQueue, 1, Len(updateQueue) - 1), listData)[Len(updateQueue) - 1]

\* C18: deleteReminder(id) removes the reminder and every notification with
\* that reminderId, and leaves the other reminders, the other notifications
\* and every other field of the list data as they were.
C18_DeleteRemovesOnlyItsOwn ==
    [][\A id \in {r.id : r \in {BeforeLast.reminders[i] : i \in 1..Len(BeforeLast.reminders)}} :
        DeleteApplied(id) =>
            /\ listData'.reminders = SelectSeq(BeforeLast.reminders, LAMBDA r : r.id # id)
            /\ listData'.notifications =
                   SelectSeq(BeforeLast.notifications, LAMBDA n : n.reminderId # id)
            /\ DOMAIN listData' = DOMAIN BeforeLast
            /\ \A k \in DOMAIN BeforeLast \ {"reminders", "notifications"} :
                   listData'[k] = BeforeLast[k]]_vars

\* The fired reminder was deleted after the scheduler's notification for a
\* reminder added since was applied: its notification went with it, the other
\* reminder and notification are still there (the store still holds both of
\* each).
C18_Witness ==
    /\ updateQueue = <<>> /\ calls = 2
    /\ Len(store[IDB_LIST_DATA_KEY][1].reminders) = 2
    /\ Len(store[IDB_LIST_DATA_KEY][1].notifications) = 2
    /\ Len(txQueue) = 1 /\ txQueue[1].key = IDB_LIST_DATA_KEY /\ txQueue[1].value = listData
    /\ Len(listData.reminders) = 1 /\ listData.reminders[1].id # firedReminder.id
    /\ Len(listData.notifications) = 1
    /\ listData.notifications[1].reminderId = listData.reminders[1].id

\* The catalog fetch of a run resolves at this step.
FetchResolves(s, r) ==
    /\ s \in runs /\ r \in runs' /\ s.rid = r.rid
    /\ s.pc = "fetching" /\ r.pc = "saving"

\* The notifications the mutator calls of this step append.
QueuedNotifications ==
    LET added == SubSeq(updateQueue', Len(updateQueue) + 1, Len(updateQueue'))
    IN {n \in UNION {SetOf(added[i].notifications) : i \in 1..Len(added)} : n.type = "news"}

\* The count the claim compares: chapters for manga-type media, episodes
\* otherwise.
CountOf(m) == IF m.type \in {"MANGA", "NOVEL", "ONE_SHOT"} THEN m.chapters ELSE m.episodes

\* Cached and new count of an id in a resolved run; a cached count that is
\* not known counts as 0.
CachedCount(s, id) ==
    LET c == CountOf(CHOOSE m \in SetOf(s.tracked) : m.id = id) IN IF c = null THEN 0 ELSE c

NewCount(r, id) == r.latest[id][1]

\* C19: in a reconciliation run, an id that is in the cache and in the catalog
\* result gets a news notification iff its new count is defined and greater
\* than the cached count, and then exactly one, carrying the difference.
C19_NewsIffCountGrew ==
    [][\A s \in runs : \A r \in runs' :
        FetchResolves(s, r) =>
            \A id \in SetOf(s.ids) :
                (HasId(s.tracked, id) /\ r.latest[id] # Absent) =>
                    LET news == {n \in QueuedNotifications : n.mediaId = id}
                        grew == NewCount(r, id) # null /\ NewCount(r, id) > CachedCount(s, id)
                    IN /\ Cardinality(news) = IF grew THEN 1 ELSE 0
                       /\ \A n \in news : n.diff = NewCount(r, id) - CachedCount(s, id)]_vars

\* The runs whose catalog fetch is under way.
Fetching == {s \in runs : s.pc = "fetching"}

\* C20: at most one reconciliation run is in progress: a runChecks call made
\* while a run has not finished starts no catalog fetch.
C20_AtMostOneRun == Cardinality(Fetching) <= 1

\* signOut has completed, no call has been made since it was called, and
\* every updater, persist, timer, run and transaction has finished.
SignedOutAndSettled ==
    /\ signOutTask.pc = "done" /\ calls = signOutTask.calls
    /\ Quiescent /\ runs = {} /\ checkingUpdates = <<>>

\* C21: after signOut has completed and every persist or timer pending at that
\* moment has finished, the store holds no profile, no list data, no
\* tracked-media cache and no sync config.
C21_SignOutLeavesStoreEmpty == SignedOutAndSettled => store = emptyStore

\* A scheduler pass starts, a reconciliation run starts, a timer-driven task
\* writes the tracked-media cache.
PassStarts == passRun'.n > passRun.n
RunStarts == \E r \in runs' : \A s \in runs : s.rid # r.rid
TimerTaskWrites ==
    /\ Len(txQueue') > Len(txQueue)
    /\ txQueue'[Len(txQueue')].key = IDB_TRACKED_MEDIA_KEY
    /\ txQueue'[Len(txQueue')].kind = "tracked"

\* C22: once authMode is no longer 'local', no scheduler pass and no
\* reconciliation run starts, and no timer-driven task writes list data or the
\* tracked-media cache.
C22_NothingRunsOnceSignedOut ==
    [][authMode # "local" => ~PassStarts /\ ~RunStarts /\ ~TimerTaskWrites]_vars

\* The effective hidden set of the last getHiddenGenres call, and the list
\* data it was computed from.
Effective == hidden[1].genres \cup hidden[1].tags
HiddenData == hidden[1].data[1]
HiddenComputed == hidden # Absent /\ hidden[1].data # Absent

\* C23 as stated: the effective hidden set is SENSITIVE_GENRES united with the
\* user's hiddenGenres while sensitiveContentUnlocked is false and exactly the
\* user's hiddenGenres when it is true, for every user list.
C23_EffectiveHiddenSet ==
    HiddenComputed =>
        Effective = IF HiddenData.sensitiveContentUnlocked THEN HiddenData.hiddenGenres
                    ELSE SENSITIVE_GENRES \cup HiddenData.hiddenGenres

\* C23 amended: the same, restricted to the names genres_list has; so while the
\* flag is false every sensitive genre of the catalog stays in the set.
C23_EffectiveHiddenKnownNames ==
    HiddenComputed =>
        /\ Effective = allGenreNames \cap
              (IF HiddenData.sensitiveContentUnlocked THEN HiddenData.hiddenGenres
               ELSE SENSITIVE_GENRES \cup HiddenData.hiddenGenres)
        /\ ~HiddenData.sensitiveContentUnlocked =>
              (SENSITIVE_GENRES \cap allGenreNames) \subseteq Effective

\* After setHiddenGenres(["Ecchi"]) with the flag false, the effective set has
\* been computed from the rendered list data.
C23_Witness ==
    /\ HiddenComputed /\ calls > 0
    /\ HiddenData = listData
    /\ ~HiddenData.sensitiveContentUnlocked /\ HiddenData.hiddenGenres = {"Ecchi"}
    /\ Effective = {"Hentai", "Ecchi"}

\* A render runs the queued updaters at this step.
Renders == updateQueue # <<>> /\ updateQueue' = <<>>

\* The transactions created at this step.
Created == [i \in 1..(Len(txQueue') - Len(txQueue)) |-> txQueue'[Len(txQueue) + i]]

\* No storage notification exists: not in memory, not in the store, not in a
\* write under way.
NoStorageNotification ==
    /\ StorageCount(Present(listData)) = 0
    /\ StorageCount(store[IDB_LIST_DATA_KEY]) = 0
    /\ \A i \in 1..Len(txQueue) :
          txQueue[i].key = IDB_LIST_DATA_KEY => StorageCount(Present(txQueue[i].value)) = 0

\* C24: without navigator.storage.estimate every mutation's merged state is
\* written to the list-data key, whatever the configured quota, and no
\* storage notification is ever produced.
C24_FailOpenWithoutEstimate ==
    [][~hasEstimate =>
        /\ NoStorageNotification'
        /\ Renders =>
              /\ Len(Created) = Len(updateQueue)
              /\ \A i \in 1..Len(Created) :
                    /\ Created[i].key = IDB_LIST_DATA_KEY
                    /\ Created[i].value = RunUpdaters(updateQueue, listData)[i]]_vars

\* Without the estimate and with a quota of one byte, two mutations have been
\* written and the store holds the in-memory list data.
C24_Witness ==
    /\ ~hasEstimate /\ calls = 2 /\ Quiescent
    /\ listData.storageQuota = 1
    /\ listData.watchedEpisodes[1] # {}
    /\ store[IDB_LIST_DATA_KEY] = Present(listData)

\* The quota guard vetoes a write at this step.
VetoIssued == Len(Created) = 1 /\ Created[1].kind = "veto"

\* C25: when a write is vetoed, the storage notification is part of the
\* in-memory notifications the UI reads.
C25_VetoWarningInMemory ==
    [][VetoIssued => StorageCount(Present(listData')) > 0]_vars

\* No write has been vetoed so far: the guard draws a fresh id for each
\* storage notification, and nothing else of the quota engine draws one.
NoVetoYet == nextId = 1

\* What a mount after a crash would find in the store.
Persisted == OrElse(store[IDB_LIST_DATA_KEY], initialListData)

\* C28: the persisted list data lags the in-memory list data by at most one
\* mutation: right after a render it is the in-memory list data or the list
\* data before the last mutation.
C28_LagsByAtMostOne ==
    [][(NoVetoYet /\ Renders) => Persisted' \in {listData', BeforeLast}]_vars

\* C29: when no veto occurs, once every pending persist has landed and no
\* further mutation is issued, the persisted list data equals the in-memory
\* list data, whatever the order the estimates and the writes complete in.
C29_SettledStoreEqualsMemory ==
    (NoVetoYet /\ Quiescent) => Persisted = listData

\* The documented default: four empty lists, empty progress maps,
\* hiddenGenres = SENSITIVE_GENRES, sensitiveContentUnlocked = false,
\* storageQuota = 1 GiB.
IsDocumentedDefault(d) ==
    /\ \A l \in ListNames : d[l] = <<>>
    /\ \A id \in Ids : d.watchedEpisodes[id] = {} /\ d.readChapters[id] = {}
    /\ d.hiddenGenres = SENSITIVE_GENRES
    /\ d.sensitiveContentUnlocked = FALSE
    /\ d.storageQuota = 1024 * 1024 * 1024

\* C26: on load in local mode, when the list-data key is absent or the read
\* fails, the in-memory list data is the documented default, and the load ends
\* as any other.
C26_AbsentOrFailedLoadGivesDefault ==
    (authMode = "local"
     /\ \/ loadTask = "caught"
        \/ loadTask = "loaded" /\ store[IDB_LIST_DATA_KEY] = Absent)
    => IsDocumentedDefault(listData)

\* The read of a mount failed although list data with other contents is stored.
C26_Witness ==
    /\ authMode = "local" /\ loadTask = "caught"
    /\ store[IDB_LIST_DATA_KEY] # Absent
    /\ Field(store[IDB_LIST_DATA_KEY][1], "storageQuota") = Present(1)
    /\ listData = initialListData

\* C27: after loadListData completes, the in-memory notificationsLayout does
\* not contain the retired key 'news' and pinnedNotificationTab is not 'news'.
C27_NoRetiredKeyAfterLoad ==
    loadTask \in {"loaded", "caught"} =>
        /\ ~Includes(listData.notificationsLayout, "news")
        /\ Field(listData, "pinnedNotificationTab") # Present("news")

\* A stored value with 'news' in the layout and as the pinned tab has been
\* loaded by a mount.
C27_Witness ==
    /\ loadTask = "loaded" /\ store[IDB_LIST_DATA_KEY] # Absent
    /\ Field(store[IDB_LIST_DATA_KEY][1], "pinnedNotificationTab") = Present("news")
    /\ Field(store[IDB_LIST_DATA_KEY][1], "notificationsLayout")
          = Present(<<"news", "updates", "reminders", "logs">>)
    /\ listData.notificationsLayout = <<"updates", "reminders", "logs">>
    /\ listData.pinnedNotificationTab = "updates"

\* The syncSharedData call sid has not returned.
Running(sid) ==
    \E s \in syncs : s.sid = sid /\ s.kind \in {"sync", "connect"} /\ s.pc \notin Finished

\* The sync s, past its guard, ends at this step as r.
SyncEnds(s, r) ==
    /\ s \in syncs /\ r \in syncs' /\ s.sid = r.sid /\ s.kind = "sync"
    /\ s.pc \in {"fetching", "writing"} /\ r.pc \in {"done", "failed"}

\* C30: every started sync terminates when the fetch and the store operations
\* return, and however it ends (synced, disconnected, 304) isSyncing is false
\* again when it has ended.
C30_SyncTerminatesNotBusy ==
    /\ \A sid \in 1..MaxCalls : Running(sid) ~> ~Running(sid)
    /\ [][\A s \in syncs : \A r \in syncs' : SyncEnds(s, r) => isSyncing' = FALSE]_vars

\* A sync that passed the guard has ended with a 304, no other call is under
\* way, and the flag is down.
C30_Witness ==
    /\ ~isSyncing
    /\ \A sid \in 1..MaxCalls : ~Running(sid)
    /\ \E s \in syncs : s.kind = "sync" /\ s.pc = "done" /\ s.response = "304"

\* The syncs whose request has been sent.
Requested == {s \in syncs : s.kind = "sync" /\ s.pc \in {"fetching", "writing", "done", "failed"}}

\* C31: a sync request carries If-None-Match with the stored ETag exactly when
\* the sync is not manual and a stored ETag exists; the sync of
\* connectToSharedData is manual and never carries it.
C31_ConditionalUnlessManual ==
    /\ \A s \in Requested :
          s.ifNoneMatch <=> (~s.manual /\ s.currentConfig.lastEtag # Absent)
    /\ \A s \in syncs : s.kind = "connect" => s.manual /\ ~s.ifNoneMatch

\* An automatic sync over a stored ETag is fetching with the header, and a
\* manual one over the same ETag without it.
C31_Witness ==
    /\ \E s \in Requested : ~s.manual /\ s.ifNoneMatch
    /\ \E s \in Requested : s.manual /\ ~s.ifNoneMatch /\ s.currentConfig.lastEtag # Absent

\* C32: while authMode stays 'local', the reconciler's initial-delay timeout
\* fires at most once per mount: no run starting or finishing and no list or
\* cache change arms it again, so every later run is started by the interval.
C32_InitialTimeoutFiresOnce == authMode = "local" => reconciler.fired <= 1

\* An interval reminder: repeatIntervalDays > 0 and no weekly days.
Interval(r) == r.repeatIntervalDays > 0 /\ r.repeatOnDays = {}

\* C33: for an interval reminder isReminderDue returns true at every time
\* after startDateTime and false at every time before it, whatever the
\* interval and the number of whole days elapsed.
C33_IntervalDueOncePastStart ==
    \A r \in DueReminders :
        (Evaluated(r) /\ Interval(r)) =>
            /\ now > r.startDateTime => dueResult = Present(TRUE)
            /\ now < r.startDateTime => dueResult = Present(FALSE)

\* An every-3-days reminder was evaluated one whole day after its start, not
\* a multiple of the interval, and was found due.
C33_Witness ==
    \E r \in DueReminders :
        /\ Evaluated(r) /\ Interval(r) /\ r.repeatIntervalDays = 3
        /\ (now - r.startDateTime) \div TicksPerDay = 1
        /\ dueResult = Present(TRUE)

\* The records of the persisted tracked-media cache.
PersistedTracked == SetOf(OrElse(store[IDB_TRACKED_MEDIA_KEY], <<>>))

\* C34: no record of the persisted tracked-media cache carries a synopsis,
\* after any sequence of list toggles, tracked-media loads and reconciliation
\* runs.
C34_NoSynopsisPersisted == \A m \in PersistedTracked : ~m.synopsis

\* The shared-data url is null in memory and in the store, as
\* disconnectFromSharedData leaves it.
UrlNull ==
    /\ sharedDataConfig.url = Absent
    /\ OrElse(Get(IDB_SHARED_DATA_KEY), nullConfig).url = Absent

\* connectToSharedData is called at this step.
ConnectCalled == \E r \in syncs' : r.kind = "connect" /\ \A s \in syncs : s.sid # r.sid

\* C35: after disconnectFromSharedData the shared-data url stays null in
\* memory and in the store until connectToSharedData is called again, even when
\* a sync started before the disconnect succeeds afterwards.
C35_DisconnectedUntilConnect == [][(UrlNull /\ ~UrlNull') => ConnectCalled]_vars

\* The ids of the tracked-media cache a read of the store returns.
TrackedIds == {m.id : m \in SetOf(OrElse(Get(IDB_TRACKED_MEDIA_KEY), <<>>))}

\* The catalog fetch of a reconciliation run resolves at this step and the run
\* writes the cache.
RunWrites ==
    \E s \in runs : \E r \in runs' : s.rid = r.rid /\ s.pc = "fetching" /\ r.pc = "saving"

\* C36: a reconciliation run never changes the membership of the persisted
\* tracked-media cache: the ids after the run's write are the ids just before
\* it, even when a membership timer added or removed an id during the fetch.
C36_RunKeepsMembership == [][RunWrites => TrackedIds' = TrackedIds]_vars

ToggleApplied(op, id) ==
    /\ updateQueue # <<>>
    /\ updateQueue[Len(updateQueue)] = [op |-> op, id |-> id]
    /\ updateQueue' = <<>>

\* Between list data b and a: id has left the plan list, has been added to or
\* removed from the current list, and nothing else has changed.
MovedToCurrent(b, a, id, plan, current) ==
    /\ ~Includes(a[plan], id)
    /\ SelectSeq(b[plan], LAMBDA y : y # id) = a[plan]
    /\ Includes(a[current], id) <=> ~Includes(b[current], id)
    /\ SetOf(a[current]) \ {id} = SetOf(b[current]) \ {id}
    /\ DOMAIN a = DOMAIN b
    /\ \A k \in DOMAIN b \ {plan, current} : a[k] = b[k]

\* C38: toggleCurrentlyWatching(X) removes X from planToWatch whether it adds
\* X to or removes X from currentlyWatching, toggleCurrentlyReading(X) does the
\* same for planToRead, and each leaves every other ListData field unchanged.
C38_ToggleCurrentClearsPlan ==
    [][\A id \in Ids :
          /\ ToggleApplied("toggleCurrentlyWatching", id) =>
                MovedToCurrent(BeforeLast, listData', id, "planToWatch", "currentlyWatching")
          /\ ToggleApplied("toggleCurrentlyReading", id) =>
                MovedToCurrent(BeforeLast, listData', id, "planToRead", "currentlyReading")]_vars

\* Media 1 was planned and being watched (the store still has it so),
\* toggleCurrentlyWatching(1) has been rendered: media 1 is neither being
\* watched nor planned, and media 2 is planned and being read as before.
C38_Witness ==
    /\ updateQueue = <<>> /\ calls = 1
    /\ \E t \in timers : t.kind = "add" /\ t.id = 1
    /\ store[IDB_LIST_DATA_KEY] = Present(plannedListData)
    /\ listData.currentlyWatching = <<>> /\ listData.planToWatch = <<>>
    /\ listData.currentlyReading = <<2>> /\ listData.planToRead = <<2>>

\* The entry that was stored when getImage was called is younger than 24 hours.
Younger(t) == t.entry # Absent /\ t.now - t.entry[1].timestamp < CACHE_EXPIRATION_MS

\* The call returned the data URL of the stored entry / a freshly fetched data
\* URL whose item, stamped with the time of the call, has been written.
ReturnedStored(t) == t.newItem = Absent /\ t.entry # Absent /\ t.result = Present(t.entry[1].dataUrl)
ReturnedFetched(t) ==
    /\ t.newItem = Present([dataUrl |-> "data:fetched", timestamp |-> t.now])
    /\ t.result = Present("data:fetched")
    /\ Committed(ImageOwner)

\* getImage's contract as stated, for every call.
ImageContract(t) ==
    /\ ReturnedStored(t) => Younger(t)
    /\ ~Younger(t) => ReturnedFetched(t) \/ t.result = Present(t.url)

\* C39 as stated: getImage returns a stored data URL only when its entry is
\* younger than 24 hours; for an absent or older entry it returns a freshly
\* fetched data URL stored with the current timestamp, or the original url.
C39_AsStated == imageTask.pc = "done" => ImageContract(imageTask)

\* C39: once the cache is ready and for a url that is not empty, getImage
\* returns a stored data URL only when its entry is younger than 24 hours; for
\* an absent or older entry it returns a freshly fetched data URL stored with
\* the timestamp of the call, or the original url when the fetch or the write
\* fails.  Before that it returns null.
C39_ReadyCacheContract ==
    imageTask.pc = "done" =>
        IF imageTask.ready /\ imageTask.url # ""
        THEN ImageContract(imageTask)
        ELSE imageTask.result = Absent

\* An entry older than 24 hours was found by a call on a ready cache, and the
\* call returned the fetched data URL after writing it.
C39_Witness ==
    /\ imageTask.pc = "done" /\ imageTask.ready
    /\ imageTask.entry # Absent /\ ~Younger(imageTask)
    /\ ReturnedFetched(imageTask)

====
